---- MODULE Spec2Model ----
(***************************************************************************)
(* A model of babelcode's execution harness and result assembly:           *)
(*   babelcode/data_types/result_types.py                                  *)
(*       ExecutionResult, read_execution_results_from_file,                *)
(*       PredictionResult                                                  *)
(*   babelcode/execution.py                                                *)
(*       safe_execute, execute_code, execute_predictions                   *)
(*   babelcode/drivers.py                                                  *)
(*       load_progress_from_dir, execute_bc_predictions                    *)
(*                                                                         *)
(* Python's None is the record None where an object is expected and -1     *)
(* (NoneNum) in a slot that holds a runtime or a memory size, which are    *)
(* never negative.  A timedelta is its number of microseconds.  A stdout   *)
(* is a sequence of lines; a line is a record [idx, tok]: the text between *)
(* "TEST-" and the first "..." of the line and the text after that "...",  *)
(* both "" for a line that is not of this form.  Python indexes from 0 and *)
(* so do the program's indices here; At(s, i) reads a sequence at a Python *)
(* index.                                                                  *)
(***************************************************************************)
EXTENDS Integers, Sequences, FiniteSets, Bags, TLC

VARIABLES
  phase,              \* where the harness is (see each specification)
  environ,            \* os.environ['ALLOW_EXECUTION'], or Unset
  commands,           \* the command list of the language
  ec,                 \* the locals of a direct call of execute_code
  execution_result,   \* the ExecutionResult execute_code returned, or None
  question_info,      \* question_info['test_case_ids'], as a set
  prediction_result,  \* the PredictionResult built from it, or None
  config,             \* execute_predictions' num_workers and update_freq
  predictions,        \* the batch handed to execute_predictions
  ep,                 \* the locals of execute_predictions
  pool,               \* the mp.Pool: tasks waiting, running, and finished
  files,              \* <Lang>_execution_results.jsonl: buffered and on disk
  journal,            \* the lines of a prior <Lang>_execution_results.jsonl
  loads,              \* what each load of that journal gave, in order
  resume,             \* the locals of execute_bc_predictions
  prediction_path,    \* the lines of the predictions file
  ev,                 \* the locals of evaluate_predictions, and its run
  setup,              \* a question and a prediction dict to set up
  code_path,          \* the text of the driver file written for them
  question_result,    \* a QuestionResult
  pass_val_arrays,    \* what calculate_pass_metrics makes of it
  schema,             \* the arguments of a function on SchemaTypes
  returned,           \* what it returned
  procs,              \* the processes a command has started, dead or alive
  sexec,              \* the locals of a call of safe_execute
  gen,                \* the locals of generate_code_for_questions
  queue,              \* the mp.JoinableQueue of execution_results_writer
  writer,             \* the locals of execution_results_writer, and its files
  renamed             \* a Question whose variables are renamed

classVars == <<execution_result, question_info, prediction_result>>
execVars == <<environ, commands, ec>>
batchVars == <<config, predictions, ep, pool, files>>
resumeVars == <<journal, loads, resume>>
evalVars == <<prediction_path, ev>>
setupVars == <<setup, code_path>>
questionVars == <<question_result, pass_val_arrays>>
killVars == <<procs, sexec>>
writerVars == <<queue, writer>>
lateVars == <<killVars, gen, writerVars, renamed>>
schemaVars == <<schema, returned, lateVars>>
otherVars == <<setupVars, questionVars, schemaVars>>
restVars == <<evalVars, otherVars>>
vars == <<phase, classVars, execVars, batchVars, resumeVars, restVars>>

None == [none |-> TRUE]
NoneNum == -1

\* ------------------------------------------------------------------ bounds
\* Longest stdout, in lines.
MaxLines == 2

\* ------------------------------------------------------- PredictionOutcome
PASSED == "Passed"
TIMED_OUT == "Timed Out"
HAD_ERROR == "Had Error"
HAD_RUNTIME_ERROR == "Had Runtime Error"
FAILED_TEST == "Failed Tests"

PredictionOutcome == {PASSED, TIMED_OUT, HAD_ERROR, HAD_RUNTIME_ERROR, FAILED_TEST}

\* ------------------------------------------------------------------ stdout
\* Test-case ids a driver may print: two that questions declare and one that
\* no question declares.
TestIds == {"0", "1", "7"}
\* Texts that may follow the first "..." of a line.  The last one holds a
\* "..." of its own: Dotted names the texts left and right of that one.
Dotted == [text |-> "ValueError...bad", left |-> "ValueError", right |-> "bad"]
Tokens == {"PASSED", "FAILED", "MISSING", "KeyError", Dotted.text}

NoiseLine == [idx |-> "", tok |-> ""]
Lines == [idx : TestIds, tok : Tokens] \cup {NoiseLine}

SeqsUpTo(S, n) == UNION {[1..k -> S] : k \in 0..n}

\* GET_TC_REGEX.findall(stdout): the groups of the lines
\* '^TEST-(.+)\.\.\.(.+)$' matches, in order.  Both groups need at least one
\* character, and the first is greedy: it runs to the last "..." of the line.
GET_TC_REGEX(stdout) ==
  LET matched == SelectSeq(stdout, LAMBDA l : l.idx # "" /\ l.tok # "")
  IN [k \in 1..Len(matched) |->
        IF matched[k].tok = Dotted.text
        THEN [idx |-> matched[k].idx \o "..." \o Dotted.left, tok |-> Dotted.right]
        ELSE matched[k]]

\* The dict the first loop of from_execution_result builds: a later match of
\* an id overwrites an earlier one; ids the question does not declare are
\* not entered.
RECURSIVE collect_matches(_, _, _)
collect_matches(matches, test_case_ids, acc) ==
  IF matches = <<>> THEN acc
  ELSE LET m == Head(matches)
           acc2 == IF m.idx \in test_case_ids
                   THEN [t \in DOMAIN acc \cup {m.idx} |->
                           IF t = m.idx THEN m.tok ELSE acc[t]]
                   ELSE acc
       IN collect_matches(Tail(matches), test_case_ids, acc2)

EmptyDict == [t \in {} |-> ""]

\* test_cases_results after the second loop: every declared id is a key.
test_cases_results(stdout, test_case_ids) ==
  LET found == collect_matches(GET_TC_REGEX(stdout), test_case_ids, EmptyDict)
  IN [t \in test_case_ids |-> IF t \in DOMAIN found THEN found[t] ELSE "MISSING"]

\* The outcome settled before the test cases are looked at (lines 203-211).
outcome_from_flags_mut(er) ==
  IF er.return_code # 0 THEN HAD_ERROR
  ELSE IF er.had_error THEN HAD_ERROR
  ELSE IF er.stdout = <<>> THEN HAD_ERROR
  ELSE IF er.timed_out THEN TIMED_OUT
  ELSE PASSED

outcome_from_flags(er) ==
  IF er.return_code # 0 THEN HAD_ERROR
  ELSE IF er.had_error THEN HAD_ERROR
  ELSE IF er.timed_out THEN TIMED_OUT
  ELSE IF er.stdout = <<>> THEN HAD_ERROR
  ELSE PASSED

\* The refinement of a PASSED outcome by the test cases (lines 222-246).
outcome_from_tests_mut(outcome, results) ==
  LET missing_test_case == \E t \in DOMAIN results : results[t] = "MISSING"
      failed_a_test_case == \E t \in DOMAIN results : results[t] = "FAILED"
      had_runtime_error ==
        \E t \in DOMAIN results : results[t] \notin {"MISSING", "FAILED", "PASSED"}
  IN IF outcome # PASSED THEN outcome
     ELSE IF missing_test_case THEN HAD_ERROR
     ELSE IF failed_a_test_case THEN FAILED_TEST
     ELSE IF had_runtime_error THEN HAD_RUNTIME_ERROR
     ELSE PASSED

outcome_from_tests(outcome, results) ==
  LET missing_test_case == \E t \in DOMAIN results : results[t] = "MISSING"
      failed_a_test_case == \E t \in DOMAIN results : results[t] = "FAILED"
      had_runtime_error ==
        \E t \in DOMAIN results : results[t] \notin {"MISSING", "FAILED", "PASSED"}
  IN IF outcome # PASSED THEN outcome
     ELSE IF missing_test_case THEN HAD_ERROR
     ELSE IF had_runtime_error THEN HAD_RUNTIME_ERROR
     ELSE IF failed_a_test_case THEN FAILED_TEST
     ELSE PASSED

\* PredictionResult.from_execution_result (the fields the claims read).
from_execution_result(er, test_case_ids) ==
  LET results == test_cases_results(er.stdout, test_case_ids)
  IN [qid |-> er.prediction.qid,
      id |-> er.prediction.id,
      outcome |-> outcome_from_tests(outcome_from_flags(er), results),
      test_case_results |-> results,
      num_tc_passed |-> Cardinality({t \in DOMAIN results : results[t] = "PASSED"}),
      num_tc |-> Cardinality(DOMAIN results),
      all_commands_ran |-> er.all_commands_ran,
      stderr |-> er.stderr]

\* ExecutionResult(...) with __post_init__, which overwrites all_commands_ran.
ExecutionResult(prediction, cmds, stdout, stderr, return_code, net_runtime, last_ran_command_idx, had_error, timed_out, command_runtimes, command_memory) ==
  [prediction |-> prediction,
   commands |-> cmds,
   stdout |-> stdout,
   stderr |-> stderr,
   return_code |-> return_code,
   net_runtime |-> net_runtime,
   last_ran_command_idx |-> last_ran_command_idx,
   command_runtimes |-> command_runtimes,
   command_memory |-> command_memory,
   had_error |-> had_error,
   timed_out |-> timed_out,
   all_commands_ran |-> (last_ran_command_idx + 1 = Len(cmds))]

\* ------------------------------------------------------------ execution
At(s, i) == s[i + 1]
SetAt_mut(s, i, v) == Append(s, v)
\* s[i] = v
SetAt(s, i, v) == [s EXCEPT ![i + 1] = v]

Unset == "<unset>"
\* os.getenv(name, default) for the one variable the harness reads.
getenv(env, default) == IF env = Unset THEN default ELSE env

\* timedelta(seconds=s), and convert_timedelta_to_milliseconds(delta).
MicrosPerSecond == 1000000
MicrosPerMilli == 1000
timedelta_seconds(s) == s * MicrosPerSecond
convert_timedelta_to_milliseconds(delta) == delta \div MicrosPerMilli

\* What a spawned command may do, as far as safe_execute can tell:
\*   exit        the child ends within the limit with a return code;
\*   timeout     the interval timer fires first (PredTimeoutError);
\*   popen_error subprocess.Popen raises (the executable cannot be started).
\* runtime is now() - start_time in microseconds, memory the peak RSS seen.
Exit(code, runtime, memory, out, err) ==
  [kind |-> "exit", code |-> code, runtime |-> runtime, memory |-> memory,
   out |-> out, err |-> err]
Timeout(memory) ==
  [kind |-> "timeout", code |-> 0, runtime |-> 0, memory |-> memory,
   out |-> <<>>, err |-> ""]
PopenError ==
  [kind |-> "popen_error", code |-> 0, runtime |-> 0, memory |-> 0,
   out |-> <<>>, err |-> ""]

NoOutputs == [stdout |-> None, stderr |-> None]

\* safe_execute(command, cwd): the CommandResult, or the exception Popen
\* raised.  The child is killed on every path that created it.
safe_execute_mut(command, b) ==
  IF b.kind = "popen_error" THEN [raised |-> "OSError"]
  ELSE IF b.kind = "timeout"
  THEN [return_code |-> -1,
        runtime |-> command.timeout,
        max_memory_used |-> b.memory,
        outputs |-> NoOutputs,
        timed_out |-> TRUE]
  ELSE [return_code |-> b.code,
        runtime |-> b.runtime,
        max_memory_used |-> b.memory,
        outputs |-> [stdout |-> b.out, stderr |-> b.err],
        timed_out |-> FALSE]

safe_execute(command, b) ==
  IF b.kind = "popen_error" THEN [raised |-> "OSError"]
  ELSE IF b.kind = "timeout"
  THEN [return_code |-> -1,
        runtime |-> timedelta_seconds(command.timeout),
        max_memory_used |-> b.memory,
        outputs |-> NoOutputs,
        timed_out |-> TRUE]
  ELSE [return_code |-> b.code,
        runtime |-> b.runtime,
        max_memory_used |-> b.memory,
        outputs |-> [stdout |-> b.out, stderr |-> b.err],
        timed_out |-> FALSE]

\* sum(filter(lambda t: t, command_runtimes)): None and 0 are dropped.
RECURSIVE sum_truthy(_)
sum_truthy(s) ==
  IF s = <<>> THEN 0
  ELSE (IF Head(s) = NoneNum THEN 0 ELSE Head(s)) + sum_truthy(Tail(s))

\* The locals of execute_code.  pc is "loop" while the for loop has a command
\* left, "after_loop" once it is left, "returned" or "raised" at the end.
\* spawned lists the indices of the commands Popen was called for, in call
\* order; exits lists what each of them did.  Neither is read by the code.
ec_idle ==
  [pc |-> "idle", i |-> 0, last_ran_command |-> -1, failed |-> FALSE,
   command_runtimes |-> <<>>, command_memory_used |-> <<>>,
   bound |-> FALSE, stdout |-> <<>>, stderr |-> "", return_code |-> 0,
   result |-> None, raised |-> "", spawned |-> <<>>, exits |-> <<>>]

\* Lines 135-147: the safety gate and the initial locals.
ec_enter_mut(env, cmds) ==
  [ec_idle EXCEPT
     !.pc = IF cmds = <<>> THEN "after_loop" ELSE "loop",
     !.command_runtimes = [k \in 1..Len(cmds) |-> NoneNum],
     !.command_memory_used = [k \in 1..Len(cmds) |-> NoneNum]]

ec_enter(env, cmds) ==
  IF getenv(env, "false") # "true"
  THEN [ec_idle EXCEPT !.pc = "raised", !.raised = "ValueError"]
  ELSE [ec_idle EXCEPT
          !.pc = IF cmds = <<>> THEN "after_loop" ELSE "loop",
          !.command_runtimes = [k \in 1..Len(cmds) |-> NoneNum],
          !.command_memory_used = [k \in 1..Len(cmds) |-> NoneNum]]

\* Lines 148-175: one iteration of the loop over the commands, for command
\* l.i doing b.
ec_step_mut(l, prediction, cmds, b) ==
  LET command == At(cmds, l.i)
      command_result == safe_execute(command, b)
      seen == [l EXCEPT !.last_ran_command = l.i,
                        !.spawned = Append(@, l.i),
                        !.exits = Append(@, b)]
  IN IF "raised" \in DOMAIN command_result
     THEN [seen EXCEPT !.pc = "raised", !.raised = command_result.raised]
     ELSE
       LET memory == SetAt(l.command_memory_used, l.i, command_result.max_memory_used)
           runtimes == SetAt(l.command_runtimes, l.i,
                             convert_timedelta_to_milliseconds(command_result.runtime))
           ran == [seen EXCEPT !.command_memory_used = memory,
                               !.command_runtimes = runtimes]
       IN IF command_result.timed_out
          THEN [ran EXCEPT
                  !.pc = "returned",
                  !.result =
                    ExecutionResult(prediction, cmds, <<>>, "", 0,
                                    sum_truthy(runtimes), l.i, FALSE, TRUE,
                                    runtimes, memory)]
          ELSE
            LET out == [ran EXCEPT
                          !.bound = TRUE,
                          !.stdout = command_result.outputs.stdout,
                          !.stderr = command_result.outputs.stderr,
                          !.return_code = command_result.return_code]
            IN IF l.i + 1 < Len(cmds)
               THEN [out EXCEPT !.i = l.i + 1,
                                !.failed = (command_result.return_code # 0)]
               ELSE [out EXCEPT !.pc = "after_loop",
                                !.failed = (command_result.return_code # 0)]

ec_step(l, prediction, cmds, b) ==
  LET command == At(cmds, l.i)
      command_result == safe_execute(command, b)
      seen == [l EXCEPT !.last_ran_command = l.i,
                        !.spawned = Append(@, l.i),
                        !.exits = Append(@, b)]
  IN IF "raised" \in DOMAIN command_result
     THEN [seen EXCEPT !.pc = "raised", !.raised = command_result.raised]
     ELSE
       LET memory == SetAt(l.command_memory_used, l.i, command_result.max_memory_used)
           runtimes == SetAt(l.command_runtimes, l.i,
                             convert_timedelta_to_milliseconds(command_result.runtime))
           ran == [seen EXCEPT !.command_memory_used = memory,
                               !.command_runtimes = runtimes]
       IN IF command_result.timed_out
          THEN [ran EXCEPT
                  !.pc = "returned",
                  !.result =
                    ExecutionResult(prediction, cmds, <<>>, "", 0,
                                    sum_truthy(runtimes), l.i, FALSE, TRUE,
                                    runtimes, memory)]
          ELSE
            LET out == [ran EXCEPT
                          !.bound = TRUE,
                          !.stdout = command_result.outputs.stdout,
                          !.stderr = command_result.outputs.stderr,
                          !.return_code = command_result.return_code]
            IN IF command_result.return_code # 0
               THEN [out EXCEPT !.failed = TRUE, !.pc = "after_loop"]
               ELSE IF l.i + 1 < Len(cmds)
               THEN [out EXCEPT !.i = l.i + 1]
               ELSE [out EXCEPT !.pc = "after_loop"]

\* Lines 177-199: the result after the loop.  stdout is bound by the first
\* command that did not time out; with no command at all the read of it at
\* line 190 raises UnboundLocalError.  net_runtime is finished_time -
\* start_time, which is at least the runtimes of the commands that ran.
ec_exit(l, prediction, cmds) ==
  IF ~l.bound
  THEN [l EXCEPT !.pc = "raised", !.raised = "UnboundLocalError"]
  ELSE [l EXCEPT
          !.pc = "returned",
          !.result =
            ExecutionResult(prediction, cmds, l.stdout, l.stderr, l.return_code,
                            sum_truthy(l.command_runtimes), l.last_ran_command,
                            l.failed, FALSE, l.command_runtimes,
                            l.command_memory_used)]

\* execute_code(prediction, commands) run to its end, the k-th command
\* spawned doing bs[k]: the locals at the return or the raise.
RECURSIVE ec_run(_, _, _, _)
ec_run(l, prediction, cmds, bs) ==
  IF l.pc = "loop" THEN ec_run(ec_step(l, prediction, cmds, At(bs, l.i)),
                               prediction, cmds, bs)
  ELSE IF l.pc = "after_loop" THEN ec_exit(l, prediction, cmds)
  ELSE l

execute_code(env, prediction, cmds, bs) ==
  ec_run(ec_enter(env, cmds), prediction, cmds, bs)

\* ----------------------------------------------------- the journal line
\* A path is [form, at]: "rel" a relative path, "abs" an absolute one that
\* may still hold symlinks or "..", "real" an absolute resolved one.
path_absolute(path) == [path EXCEPT !.form = IF @ = "rel" THEN "abs" ELSE @]
path_resolve(path) == [path EXCEPT !.form = "real"]

\* Prediction.to_dict (the fields kept here): file_path is serialized as
\* str(file_path.resolve().absolute()).
prediction_to_dict(prediction) ==
  [id |-> prediction.id, qid |-> prediction.qid, lang |-> prediction.lang,
   file_path |-> path_absolute(path_resolve(prediction.file_path))]

\* ExecutionResult.to_dict: the prediction's keys, then the result's own.
to_dict(er) ==
  LET prediction_dict == prediction_to_dict(er.prediction)
  IN [id |-> prediction_dict.id,
      qid |-> prediction_dict.qid,
      lang |-> prediction_dict.lang,
      file_path |-> prediction_dict.file_path,
      commands |-> er.commands,
      stdout |-> er.stdout,
      stderr |-> er.stderr,
      return_code |-> er.return_code,
      net_runtime |-> er.net_runtime,
      last_ran_command_idx |-> er.last_ran_command_idx,
      command_runtimes |-> er.command_runtimes,
      command_memory |-> er.command_memory,
      had_error |-> er.had_error,
      timed_out |-> er.timed_out,
      all_commands_ran |-> er.all_commands_ran]

\* ExecutionResult.key
result_key(er) == er.prediction.qid \o "/" \o er.prediction.id

\* --------------------------------------------------- execute_predictions
\* Most predictions of a batch, most commands of a language.
MaxPreds == 2
MaxCmds == 2

\* update_freq's default, and Command.timeout's.
DefaultUpdateFreq == 250
DefaultTimeout == 10

Language == "Python"

\* The prediction setup_language_code_dirs makes for the k-th entry of a
\* batch: its driver file lies in the code directory, not yet resolved.
BatchPrediction(k) ==
  [id |-> ToString(k - 1), qid |-> "1", lang |-> Language,
   file_path |-> [form |-> "abs", at |-> ToString(k - 1)]]

ep_idle ==
  [executor_args |-> <<>>, results |-> <<>>, num_completed |-> 0,
   last_written_idx |-> 0, raised |-> "", returned |-> FALSE]
\* finished and spawned are not read by the code: the tasks the workers have
\* run to their end, and the <<task, command index>> pairs they spawned.
pool_idle ==
  [created |-> FALSE, pending |-> <<>>, running |-> {}, outqueue |-> <<>>,
   finished |-> {}, spawned |-> {}]
files_none == [existing |-> {}, opened |-> FALSE, buffer |-> <<>>, disk |-> <<>>]

\* results[last_written_idx:], serialized, appended to the file object.
write_results_mut(f, results, last_written_idx) ==
  [f EXCEPT !.buffer = @ \o [k \in 1..Len(results) |-> to_dict(results[k])]]

write_results(f, results, last_written_idx) ==
  [f EXCEPT !.buffer =
     @ \o [k \in 1..(Len(results) - last_written_idx) |->
             to_dict(results[last_written_idx + k])]]

\* What the file object holds reaches the disk.
flush(f) == [f EXCEPT !.disk = @ \o f.buffer, !.buffer = <<>>]

\* ----------------------------------------------- reading a journal back
\* A line of a journal file is [json, fields, lacks, extra]:
\*   json    what json.loads makes of it: "invalid" (JSONDecodeError, such as
\*           a truncated line), "scalar" (a number, string, true, false or
\*           null), "array" or "object";
\*   fields  for an object, the keys ExecutionResult.to_dict writes;
\*   lacks   the one key of those the object does not have, or "";
\*   extra   whether the object has a key to_dict does not write.
RecordLine(d) == [json |-> "object", fields |-> d, lacks |-> "", extra |-> FALSE]
NoFields == [none |-> TRUE]

pred_keys == {"id", "qid", "lang", "code", "entry_fn_name", "entry_cls_name", "file_path"}

\* ExecutionResult.from_dict on a value json.loads returned: the result, or
\* the exception.  A value without pop() raises AttributeError, a list's
\* pop('id') TypeError, a missing prediction key or 'commands' KeyError, and
\* the dataclass constructor TypeError for any other missing or extra key.
from_dict(value) ==
  IF value.json = "scalar" THEN [raised |-> "AttributeError", result |-> None]
  ELSE IF value.json = "array" THEN [raised |-> "TypeError", result |-> None]
  ELSE IF value.lacks \in pred_keys \cup {"commands"}
  THEN [raised |-> "KeyError", result |-> None]
  ELSE IF value.lacks # "" \/ value.extra
  THEN [raised |-> "TypeError", result |-> None]
  ELSE LET d == value.fields
           prediction ==
             [id |-> d.id, qid |-> d.qid, lang |-> d.lang,
              file_path |-> path_absolute(d.file_path)]
       IN [raised |-> "",
           result |-> ExecutionResult(prediction, d.commands, d.stdout, d.stderr,
                                      d.return_code, d.net_runtime,
                                      d.last_ran_command_idx, d.had_error,
                                      d.timed_out, d.command_runtimes,
                                      d.command_memory)]

\* The two statements of the try block, lines 128-129.
parse_line(line) ==
  IF line.json = "invalid" THEN [raised |-> "JSONDecodeError", result |-> None]
  ELSE from_dict(line)

\* The exceptions the loop of read_execution_results_from_file catches.
caught == {"JSONDecodeError", "KeyError", "TypeError"}

\* parsed[result.prediction.lang][result.key] = result, with parsed kept as
\* the sequence of its results in iteration order: languages in the order of
\* their first result, keys within a language in the order of their first.
parsed_put(parsed, result) ==
  LET same == {k \in 1..Len(parsed) :
                 /\ parsed[k].prediction.lang = result.prediction.lang
                 /\ result_key(parsed[k]) = result_key(result)}
      lang == {k \in 1..Len(parsed) :
                 parsed[k].prediction.lang = result.prediction.lang}
  IN IF same # {}
     THEN [k \in 1..Len(parsed) |-> IF k \in same THEN result ELSE parsed[k]]
     ELSE IF lang = {} THEN Append(parsed, result)
     ELSE LET at == CHOOSE k \in lang : \A j \in lang : j <= k
          IN SubSeq(parsed, 1, at) \o <<result>> \o SubSeq(parsed, at + 1, Len(parsed))

\* The loop over the lines: the parsed results, or the exception that left it.
RECURSIVE read_lines(_, _)
read_lines(lines, parsed) ==
  IF lines = <<>> THEN [raised |-> "", parsed |-> parsed]
  ELSE LET got == parse_line(Head(lines))
       IN IF got.raised = ""
          THEN read_lines(Tail(lines), parsed_put(parsed, got.result))
          ELSE IF got.raised \in caught THEN read_lines(Tail(lines), parsed)
          ELSE [raised |-> got.raised, parsed |-> parsed]

\* Lines 141-144: the file opened with 'w' and every parsed result written.
rewrite_mut(lines, parsed) ==
  lines \o [k \in 1..Len(parsed) |-> RecordLine(to_dict(parsed[k]))]

rewrite(lines, parsed) == [k \in 1..Len(parsed) |-> RecordLine(to_dict(parsed[k]))]

\* read_execution_results_from_file(file_path): what it returns or raises,
\* and the lines of the file afterwards.
read_execution_results_from_file(lines) ==
  LET got == read_lines(lines, <<>>)
  IN IF got.raised # ""
     THEN [raised |-> got.raised, parsed |-> <<>>, file |-> lines]
     ELSE [raised |-> "", parsed |-> got.parsed, file |-> rewrite(lines, got.parsed)]

\* load_progress_from_dir(dir_path) on a directory that holds one journal:
\* out[lang].update(results) on an empty out gives what the file gave.
load_progress_from_dir(lines) == read_execution_results_from_file(lines)

\* existing_results.get(lang_name, {}), in the dict's order.
existing_results_get(parsed, lang_name) ==
  SelectSeq(parsed, LAMBDA r : r.prediction.lang = lang_name)

\* ----------------------------------------------- execute_bc_predictions
\* given is not read by the code: the keys of raw_predictions at the call.
resume_idle ==
  [pc |-> "idle", given |-> {}, raw_predictions |-> <<>>,
   question_mapping |-> {}, executed_predictions |-> <<>>,
   raw_results |-> <<>>, raised |-> ""]

Qids == {"1", "2"}
Ids == {"0", "1"}

\* An entry of raw_predictions as evaluate_predictions makes it: the key is
\* f"{qid}/{id}" of the prediction dict it maps to.
RawPrediction(qid, id) ==
  [key |-> qid \o "/" \o id, pred_dict |-> [id |-> id, qid |-> qid]]

\* key.split('/')[0]
split_qid(key) == CHOOSE q \in Qids : \E i \in Ids : q \o "/" \o i = key

keys_of(results) == {result_key(results[k]) : k \in 1..Len(results)}

\* Lines 441-454: the journalled keys of the batch leave raw_predictions, the
\* journalled keys not of the batch leave executed_predictions.
skip_executed_mut(r) ==
  [r EXCEPT
     !.pc = "filtered",
     !.executed_predictions =
        SelectSeq(@, LAMBDA e :
                       \E k \in 1..Len(r.raw_predictions) :
                          r.raw_predictions[k].key = result_key(e))]

skip_executed(r) ==
  [r EXCEPT
     !.pc = "filtered",
     !.raw_predictions =
        SelectSeq(@, LAMBDA p : p.key \notin keys_of(r.executed_predictions)),
     !.executed_predictions =
        SelectSeq(@, LAMBDA e :
                       \E k \in 1..Len(r.raw_predictions) :
                          r.raw_predictions[k].key = result_key(e))]

\* setup_language_code_dirs: a Prediction, with its driver file written, for
\* every entry whose question is known; the others are logged and left out.
setup_language_code_dirs(raw, question_mapping) ==
  LET known == SelectSeq(raw, LAMBDA p : split_qid(p.key) \in question_mapping)
      out == [k \in 1..Len(known) |->
                [id |-> known[k].pred_dict.id, qid |-> known[k].pred_dict.qid,
                 lang |-> Language,
                 file_path |-> [form |-> "abs", at |-> known[k].key]]]
  IN IF \E j, k \in 1..Len(out) : j < k /\ result_key([prediction |-> out[j]])
                                            = result_key([prediction |-> out[k]])
     THEN [raised |-> "KeyError", out |-> <<>>]
     ELSE [raised |-> "", out |-> out]

\* ------------------------------------------------- evaluate_predictions
\* run, first and grouped are not read by the code: which run of the program
\* this is, the keys the first run gave the lines of the predictions file,
\* and the keys this run gave them.
ev_idle == [pc |-> "idle", run |-> 1, first |-> <<>>, grouped |-> <<>>]

\* Texts are sequences of tokens.  An Optional[str] is <<>> for None and
\* <<text>> for a string.
PLACEHOLDER_CODE_BODY == "PLACEHOLDER_CODE_BODY"
PLACEHOLDER_FN_NAME == "PLACEHOLDER_FN_NAME"
PLACEHOLDER_CLS_NAME == "PLACEHOLDER_CLS_NAME"

setup_idle ==
  [question |-> [test_code |-> <<>>, entry_fn_name |-> <<>>, entry_cls_name |-> <<>>],
   pred_dict |-> [code |-> <<>>, entry_fn_name |-> <<>>, entry_cls_name |-> <<>>],
   force_question_entry |-> FALSE]

setup_unused ==
  /\ setup = setup_idle
  /\ code_path = <<>>

\* QuestionResult(id, lang, num_test_cases) as its constructor leaves it: the
\* defaultdicts hold what reading any of their keys would give.
QuestionResult(num_test_cases) ==
  [num_test_cases |-> num_test_cases,
   num_predictions |-> 0,
   results |-> [o \in PredictionOutcome |-> <<>>],
   num_tc_passed |-> <<>>,
   specific_test_results |-> [t \in 0..(num_test_cases - 1) |-> EmptyBag]]

question_unused ==
  /\ question_result = QuestionResult(0)
  /\ pass_val_arrays = <<>>

kill_unused ==
  /\ procs = <<>>
  /\ sexec = [pc |-> "idle"]

gen_unused == gen = [pc |-> "idle"]

writer_unused ==
  /\ queue = <<>>
  /\ writer = [pc |-> "idle"]

rename_unused == renamed = <<>>

late_unused ==
  /\ kill_unused
  /\ gen_unused
  /\ writer_unused
  /\ rename_unused

schema_unused ==
  /\ schema = <<>>
  /\ returned = <<>>
  /\ late_unused

others_idle ==
  /\ setup_unused
  /\ question_unused
  /\ schema_unused

rest_idle ==
  /\ prediction_path = <<>>
  /\ ev = ev_idle
  /\ others_idle

\* ------------------------------------------------- result assembly alone
\* Any execution result a journal or a harness may hand to result assembly:
\* every combination of return code, flags, stdout and stderr.
OnePrediction == BatchPrediction(1)
OneCommand == [command |-> 0, timeout |-> DefaultTimeout]

InitClassify ==
  /\ phase = "returned"
  /\ \E rc \in {0, 1, -1}, he \in BOOLEAN, to \in BOOLEAN,
        so \in SeqsUpTo(Lines, MaxLines), se \in {"", "Warnings:"} :
       execution_result =
         ExecutionResult(OnePrediction, <<OneCommand>>, so, se, rc, 1, 0, he, to,
                         <<1>>, <<10>>)
  /\ question_info \in SUBSET {"0", "1"}
  /\ prediction_result = None
  /\ environ = "true"
  /\ commands = <<OneCommand>>
  /\ ec = ec_idle
  /\ config = [num_workers |-> 1, update_freq |-> DefaultUpdateFreq]
  /\ predictions = <<>>
  /\ ep = ep_idle
  /\ pool = pool_idle
  /\ files = files_none
  /\ journal = <<>>
  /\ loads = <<>>
  /\ resume = resume_idle
  /\ rest_idle

\* The caller of execute_code hands its result to result assembly.
Assemble ==
  /\ phase = "returned"
  /\ phase' = "assembled"
  /\ prediction_result' = from_execution_result(execution_result, question_info)
  /\ UNCHANGED <<execution_result, question_info, execVars, batchVars, resumeVars, restVars>>

NextClassify == Assemble

SpecClassify == InitClassify /\ [][NextClassify]_vars

\* C1: result assembly gives the outcome of the first rule that matches, in
\* the order: return code # 0 -> HAD_ERROR; had_error -> HAD_ERROR;
\* timed_out -> TIMED_OUT; empty stdout -> HAD_ERROR; a declared test case
\* marked MISSING -> HAD_ERROR; a test token neither PASSED nor FAILED ->
\* HAD_RUNTIME_ERROR; a FAILED token -> FAILED_TEST; otherwise PASSED.  The
\* rules read the return code, the two flags, stdout and the declared ids,
\* never stderr.
C1_FirstRule(rc, had_error, timed_out, stdout, results) ==
  IF rc # 0 THEN HAD_ERROR
  ELSE IF had_error THEN HAD_ERROR
  ELSE IF timed_out THEN TIMED_OUT
  ELSE IF Len(stdout) = 0 THEN HAD_ERROR
  ELSE IF \E t \in DOMAIN results : results[t] = "MISSING" THEN HAD_ERROR
  ELSE IF \E t \in DOMAIN results : results[t] \notin {"PASSED", "FAILED"}
       THEN HAD_RUNTIME_ERROR
  ELSE IF \E t \in DOMAIN results : results[t] = "FAILED" THEN FAILED_TEST
  ELSE PASSED

C1_OutcomeByFirstRule ==
  phase = "assembled" =>
    /\ prediction_result.outcome \in PredictionOutcome
    /\ prediction_result.outcome =
         C1_FirstRule(execution_result.return_code, execution_result.had_error,
                      execution_result.timed_out, execution_result.stdout,
                      prediction_result.test_case_results)

\* A result whose stderr is not empty, whose stdout reports a FAILED and a
\* runtime-error token, classified.
C1_Witness ==
  /\ phase = "assembled"
  /\ execution_result.stderr # ""
  /\ execution_result.return_code = 0
  /\ ~execution_result.had_error
  /\ ~execution_result.timed_out
  /\ question_info = {"0", "1"}
  /\ prediction_result.test_case_results["0"] = "FAILED"
  /\ prediction_result.test_case_results["1"] = "KeyError"
  /\ prediction_result.outcome = HAD_RUNTIME_ERROR

\* ------------------------------------------------- the execution harness
\* A direct call of execute_code (phase "code"), or a call of
\* execute_predictions (phase "predictions") whose pool workers run
\* exec_wrapper, under every value of ALLOW_EXECUTION.
Runtimes == {2000, 1003000}
MemorySizes == {4096}
ExecStdouts ==
  {<<>>, <<[idx |-> "0", tok |-> "PASSED"]>>, <<[idx |-> "0", tok |-> "FAILED"]>>}

Behaviours ==
  {Exit(0, r, m, so, "") : r \in Runtimes, m \in MemorySizes, so \in ExecStdouts}
    \cup {Exit(1, r, m, <<>>, "Traceback") : r \in Runtimes, m \in MemorySizes}
    \cup {Timeout(m) : m \in MemorySizes}
    \cup {PopenError}

BatchBehaviours ==
  {Exit(0, 2000, m, <<[idx |-> "0", tok |-> "PASSED"]>>, "") : m \in MemorySizes}
    \cup {Exit(1, 2000, m, <<>>, "Traceback") : m \in MemorySizes}
    \cup {Timeout(m) : m \in MemorySizes}
    \cup {PopenError}

EnvValues == {Unset, "true", "false", "True"}
Timeouts == {1, DefaultTimeout}

InitCode ==
  /\ phase = "code"
  /\ commands \in SeqsUpTo([command : {0}, timeout : Timeouts], MaxCmds)
  /\ config = [num_workers |-> 1, update_freq |-> DefaultUpdateFreq]
  /\ predictions = <<>>
  /\ files = files_none

InitPredictions ==
  /\ phase = "predictions"
  /\ commands \in {<<OneCommand>>, <<[command |-> 0, timeout |-> 1], OneCommand>>}
  /\ config \in [num_workers : {1, 2}, update_freq : {1, 2, DefaultUpdateFreq}]
  /\ \E n \in 0..MaxPreds :
       /\ predictions = [k \in 1..n |-> BatchPrediction(k)]
       /\ \E present \in SUBSET (1..n) :
            files = [files_none EXCEPT !.existing = present]

Init ==
  /\ environ \in EnvValues
  /\ InitCode \/ InitPredictions
  /\ ec = ec_idle
  /\ execution_result = None
  /\ question_info = {"0"}
  /\ prediction_result = None
  /\ ep = ep_idle
  /\ pool = pool_idle
  /\ journal = <<>>
  /\ loads = <<>>
  /\ resume = resume_idle
  /\ rest_idle

\* execute_code is called: lines 135-147.
execute_code_call ==
  /\ phase = "code"
  /\ ec.pc = "idle"
  /\ ec' = ec_enter(environ, commands)
  /\ phase' = IF ec'.pc = "raised" THEN "raised" ELSE phase
  /\ UNCHANGED <<environ, commands, classVars, batchVars, resumeVars, restVars>>

\* One iteration of its loop: lines 148-175.
execute_code_command ==
  /\ phase = "code"
  /\ ec.pc = "loop"
  /\ \E b \in Behaviours : ec' = ec_step(ec, OnePrediction, commands, b)
  /\ phase' = IF ec'.pc = "raised" THEN "raised"
              ELSE IF ec'.pc = "returned" THEN "returned" ELSE phase
  /\ execution_result' = ec'.result
  /\ UNCHANGED <<environ, commands, question_info, prediction_result, batchVars, resumeVars, restVars>>

\* The end of execute_code after the loop: lines 177-199.
execute_code_return ==
  /\ phase = "code"
  /\ ec.pc = "after_loop"
  /\ ec' = ec_exit(ec, OnePrediction, commands)
  /\ phase' = IF ec'.pc = "raised" THEN "raised" ELSE "returned"
  /\ execution_result' = ec'.result
  /\ UNCHANGED <<environ, commands, question_info, prediction_result, batchVars, resumeVars, restVars>>

\* execute_predictions is called: lines 272-318.  The gate, the arguments of
\* the predictions whose file exists, the two output files, the pool.
execute_predictions_call_mut ==
  /\ phase = "predictions"
  /\ ~ep.returned /\ ep.raised = "" /\ ~pool.created
  /\ LET executor_args ==
           SelectSeq([k \in 1..Len(predictions) |-> k],
                     LAMBDA k : k \in files.existing)
     IN /\ ep' = [ep EXCEPT !.executor_args = executor_args]
        /\ files' = [files EXCEPT !.opened = TRUE]
        /\ pool' = [pool EXCEPT !.created = TRUE, !.pending = executor_args]
        /\ phase' = phase
  /\ UNCHANGED <<classVars, execVars, config, predictions, resumeVars, restVars>>

execute_predictions_call ==
  /\ phase = "predictions"
  /\ ~ep.returned /\ ep.raised = "" /\ ~pool.created
  /\ IF getenv(environ, "false") # "true"
     THEN /\ ep' = [ep EXCEPT !.raised = "ValueError"]
          /\ phase' = "raised"
          /\ UNCHANGED <<files, pool>>
     ELSE LET executor_args ==
                SelectSeq([k \in 1..Len(predictions) |-> k],
                          LAMBDA k : k \in files.existing)
          IN /\ ep' = [ep EXCEPT !.executor_args = executor_args]
             /\ files' = [files EXCEPT !.opened = TRUE]
             /\ pool' = [pool EXCEPT !.created = TRUE, !.pending = executor_args]
             /\ phase' = phase
  /\ UNCHANGED <<classVars, execVars, config, predictions, resumeVars, restVars>>

\* The pool hands the next waiting task to an idle worker.
pool_start_task ==
  /\ phase = "predictions"
  /\ pool.created
  /\ pool.pending # <<>>
  /\ Cardinality(pool.running) < config.num_workers
  /\ pool' = [pool EXCEPT !.pending = Tail(@), !.running = @ \cup {Head(pool.pending)}]
  /\ UNCHANGED <<phase, classVars, execVars, config, predictions, ep, files, resumeVars, restVars>>

\* exec_wrapper (lines 203-213) in a worker: execute_code for one task,
\* whose return value or exception goes to the pool's result queue.
exec_wrapper ==
  /\ phase = "predictions"
  /\ \E k \in pool.running, bs \in [1..Len(commands) -> BatchBehaviours] :
       LET done == execute_code(environ, predictions[k], commands, bs)
       IN pool' = [pool EXCEPT
                     !.running = @ \ {k},
                     !.outqueue = Append(@, [arg |-> k, raised |-> done.raised,
                                             result |-> done.result]),
                     !.finished = @ \cup {[arg |-> k, raised |-> done.raised]},
                     !.spawned = @ \cup {<<k, done.spawned[j]>> :
                                           j \in 1..Len(done.spawned)}]
  /\ UNCHANGED <<phase, classVars, execVars, config, predictions, ep, files, resumeVars, restVars>>

\* One turn of the loop over pool.imap_unordered: lines 319-416.  An
\* exception of the worker is raised again here, leaves the function through
\* the pool's context manager (which terminates the pool) and skips lines
\* 422-433.
imap_unordered_next_mut ==
  /\ phase = "predictions"
  /\ pool.outqueue # <<>>
  /\ LET got == Head(pool.outqueue)
         results == Append(ep.results, got.result)
         num_completed == ep.num_completed + 1
     IN IF got.raised # ""
        THEN /\ ep' = [ep EXCEPT !.raised = got.raised]
             /\ pool' = [pool EXCEPT !.pending = <<>>, !.running = {},
                                     !.outqueue = <<>>]
             /\ phase' = "raised"
             /\ UNCHANGED files
        ELSE /\ pool' = [pool EXCEPT !.outqueue = Tail(@)]
             /\ phase' = phase
             /\ ep' = [ep EXCEPT !.results = results,
                                 !.num_completed = num_completed,
                                 !.last_written_idx = Len(results)]
             /\ files' = flush(write_results(files, results, ep.last_written_idx))
  /\ UNCHANGED <<classVars, execVars, config, predictions, resumeVars, restVars>>

imap_unordered_next ==
  /\ phase = "predictions"
  /\ pool.outqueue # <<>>
  /\ LET got == Head(pool.outqueue)
         results == Append(ep.results, got.result)
         num_completed == ep.num_completed + 1
     IN IF got.raised # ""
        THEN /\ ep' = [ep EXCEPT !.raised = got.raised]
             /\ pool' = [pool EXCEPT !.pending = <<>>, !.running = {},
                                     !.outqueue = <<>>]
             /\ phase' = "raised"
             /\ UNCHANGED files
        ELSE /\ pool' = [pool EXCEPT !.outqueue = Tail(@)]
             /\ phase' = phase
             /\ IF num_completed % config.update_freq = 0
                THEN /\ ep' = [ep EXCEPT !.results = results,
                                         !.num_completed = num_completed,
                                         !.last_written_idx = Len(results)]
                     /\ files' = write_results(files, results, ep.last_written_idx)
                ELSE /\ ep' = [ep EXCEPT !.results = results,
                                         !.num_completed = num_completed]
                     /\ UNCHANGED files
  /\ UNCHANGED <<classVars, execVars, config, predictions, resumeVars, restVars>>

\* The iterator is exhausted: lines 418-433.  The pool is closed, the
\* results not yet written are written, the file is closed.
execute_predictions_return ==
  /\ phase = "predictions"
  /\ pool.created
  /\ ep.num_completed = Len(ep.executor_args)
  /\ pool' = [pool EXCEPT !.created = FALSE]
  /\ files' = [flush(write_results(files, ep.results, ep.last_written_idx))
                 EXCEPT !.opened = FALSE]
  /\ ep' = [ep EXCEPT !.returned = TRUE]
  /\ phase' = "done"
  /\ UNCHANGED <<classVars, execVars, config, predictions, resumeVars, restVars>>

\* The file object's buffer fills, or the object is finalized: what was
\* written reaches the disk.  The code never asks for it before close().
buffer_flush ==
  /\ phase \in {"predictions", "raised"}
  /\ files.buffer # <<>>
  /\ files' = flush(files)
  /\ UNCHANGED <<phase, classVars, execVars, config, predictions, ep, pool, resumeVars, restVars>>

Next ==
  \/ execute_code_call
  \/ execute_code_command
  \/ execute_code_return
  \/ Assemble
  \/ execute_predictions_call
  \/ pool_start_task
  \/ exec_wrapper
  \/ imap_unordered_next
  \/ execute_predictions_return
  \/ buffer_flush

Spec == Init /\ [][Next]_vars

Range(s) == {s[k] : k \in 1..Len(s)}
Last(s) == s[Len(s)]

\* ------------------------------------------------- a journal read back
\* Most lines of a journal.
MaxJournal == 3

\* The results an earlier run can have journalled for a prediction: its one
\* command passed, or failed.
JournalBehaviours ==
  {Exit(0, 2000, 4096, <<[idx |-> "0", tok |-> "PASSED"]>>, ""),
   Exit(1, 2000, 4096, <<>>, "Traceback")}

JournalResult(raw, b) ==
  execute_code("true", setup_language_code_dirs(<<raw>>, Qids).out[1],
               <<OneCommand>>, <<b>>).result

JournalRecords ==
  {RecordLine(to_dict(JournalResult(RawPrediction("1", i), b))) :
     i \in Ids, b \in JournalBehaviours}

\* Lines that are no record: cut short, a JSON scalar, a JSON array, an
\* object without 'qid', one without 'stdout', one with a key too many.
BrokenLines ==
  LET d == to_dict(JournalResult(RawPrediction("1", "0"),
                                 Exit(0, 2000, 4096, <<>>, "")))
  IN {[json |-> "invalid", fields |-> NoFields, lacks |-> "", extra |-> FALSE],
      [json |-> "scalar", fields |-> NoFields, lacks |-> "", extra |-> FALSE],
      [json |-> "array", fields |-> NoFields, lacks |-> "", extra |-> FALSE],
      [json |-> "object", fields |-> d, lacks |-> "qid", extra |-> FALSE],
      [json |-> "object", fields |-> d, lacks |-> "stdout", extra |-> FALSE],
      [json |-> "object", fields |-> d, lacks |-> "", extra |-> TRUE]}

JournalLines == JournalRecords \cup BrokenLines

idle_but_journal ==
  /\ environ = "true"
  /\ commands = <<OneCommand>>
  /\ ec = ec_idle
  /\ execution_result = None
  /\ question_info = {"0"}
  /\ prediction_result = None
  /\ predictions = <<>>
  /\ ep = ep_idle
  /\ pool = pool_idle
  /\ files = files_none
  /\ loads = <<>>

InitJournal ==
  /\ phase = "journal"
  /\ journal \in SeqsUpTo(JournalLines, MaxJournal)
  /\ resume = resume_idle
  /\ rest_idle
  /\ config = [num_workers |-> 1, update_freq |-> DefaultUpdateFreq]
  /\ idle_but_journal

\* evaluate_predictions.py lines 137-143, run once more when the program is:
\* the journal is read, and rewritten unless the reading raised.  read is
\* not read by the code: the lines the file held before.
load_progress ==
  /\ phase \in {"journal", "resume"}
  /\ resume.pc = "idle"
  /\ Len(loads) < (IF phase = "journal" THEN 2 ELSE 1)
  /\ LET got == load_progress_from_dir(journal)
     IN /\ loads' = Append(loads, [read |-> journal, raised |-> got.raised,
                                   parsed |-> got.parsed, file |-> got.file])
        /\ journal' = got.file
        /\ phase' = IF phase = "resume" /\ got.raised # "" THEN "raised" ELSE phase
        /\ resume' = IF phase = "resume" /\ got.raised = ""
                     THEN [resume EXCEPT
                             !.pc = "called",
                             !.executed_predictions =
                                existing_results_get(got.parsed, Language)]
                     ELSE [resume EXCEPT !.raised = got.raised]
  /\ UNCHANGED <<classVars, execVars, batchVars, restVars>>

NextJournal == load_progress

SpecJournal == InitJournal /\ [][NextJournal]_vars

\* ------------------------------------------------------ a resumed batch
ResumeKeys ==
  <<RawPrediction("1", "0"), RawPrediction("1", "1"), RawPrediction("2", "0")>>

\* The sub-dicts of a dict, each in the dict's order.
SubSeqs(seq) ==
  {SelectSeq(seq, LAMBDA e : \E k \in S : seq[k] = e) : S \in SUBSET (1..Len(seq))}

\* The journal an interrupted run leaves: a record per prediction it had
\* written, and perhaps the start of one more.
InitResume ==
  /\ phase = "resume"
  /\ \E done \in SubSeqs(ResumeKeys), bs \in [1..Len(ResumeKeys) -> JournalBehaviours],
        cut \in SubSeqs(<<[json |-> "invalid", fields |-> NoFields,
                           lacks |-> "", extra |-> FALSE]>>) :
       journal = [k \in 1..Len(done) |->
                    RecordLine(to_dict(JournalResult(done[k], bs[k])))] \o cut
  /\ \E raw \in SubSeqs(ResumeKeys) :
       resume = [resume_idle EXCEPT
                   !.given = {raw[k].key : k \in 1..Len(raw)},
                   !.raw_predictions = raw,
                   !.question_mapping = {"1"}]
  /\ rest_idle
  /\ config \in [num_workers : {1}, update_freq : {1, DefaultUpdateFreq}]
  /\ idle_but_journal

\* run_executions_in_dir, lines 441-459.
run_executions_skip ==
  /\ phase = "resume"
  /\ resume.pc = "called"
  /\ resume' = skip_executed(resume)
  /\ UNCHANGED <<phase, classVars, execVars, batchVars, journal, loads, restVars>>

\* Lines 460-470 up to the call of execute_predictions, or lines 478-481.
run_executions_setup ==
  /\ phase = "resume"
  /\ resume.pc = "filtered"
  /\ IF resume.raw_predictions # <<>>
     THEN LET got == setup_language_code_dirs(resume.raw_predictions,
                                              resume.question_mapping)
          IN IF got.raised # ""
             THEN /\ resume' = [resume EXCEPT !.pc = "raised", !.raised = got.raised]
                  /\ phase' = "raised"
                  /\ UNCHANGED <<predictions, files>>
             ELSE /\ resume' = [resume EXCEPT !.pc = "executing"]
                  /\ predictions' = got.out
                  /\ files' = [files EXCEPT !.existing = 1..Len(got.out)]
                  /\ phase' = "predictions"
     ELSE /\ resume' = [resume EXCEPT !.pc = "returned",
                                      !.raw_results = resume.executed_predictions]
          /\ phase' = "aggregated"
          /\ UNCHANGED <<predictions, files>>
  /\ UNCHANGED <<classVars, execVars, config, ep, pool, journal, loads, restVars>>

\* Line 477, after execute_predictions has returned.
run_executions_return ==
  /\ phase = "done"
  /\ resume.pc = "executing"
  /\ resume' = [resume EXCEPT !.pc = "returned",
                              !.raw_results = ep.results \o resume.executed_predictions]
  /\ phase' = "aggregated"
  /\ UNCHANGED <<classVars, execVars, batchVars, journal, loads, restVars>>

NextResume ==
  \/ load_progress
  \/ run_executions_skip
  \/ run_executions_setup
  \/ run_executions_return
  \/ execute_predictions_call
  \/ pool_start_task
  \/ exec_wrapper
  \/ imap_unordered_next
  \/ execute_predictions_return
  \/ buffer_flush

SpecResume == InitResume /\ [][NextResume]_vars

\* ----------------------------------------- two runs of evaluate_predictions
\* The lines a predictions file can hold: two candidates for question "1"
\* and one for question "2", ids as their author chose them.
FilePredictions ==
  {[qid |-> "1", id |-> "a", language |-> Language, code |-> "A"],
   [qid |-> "1", id |-> "b", language |-> Language, code |-> "B"],
   [qid |-> "2", id |-> "a", language |-> Language, code |-> "C"]}

\* The files that hold each of some lines once, in some order.
FilesOf(lines) ==
  {f \in SeqsUpTo(lines, Cardinality(lines)) :
     \A j, k \in 1..Len(f) : j # k => f[j] # f[k]}

\* Lines 152-161: prediction['id'] becomes the number of earlier lines of
\* the same language and question, and the key is made of that number.
\* Prediction.from_dict turns the number into a string with str().
RECURSIVE group_predictions(_, _, _)
group_predictions(lines, question_id_counter, preds) ==
  IF lines = <<>> THEN preds
  ELSE LET prediction == Head(lines)
           pid == question_id_counter[prediction.qid]
           entry == [key |-> prediction.qid \o "/" \o ToString(pid),
                     pred_dict |-> [id |-> ToString(pid), qid |-> prediction.qid,
                                    code |-> prediction.code]]
       IN group_predictions(Tail(lines),
                            [question_id_counter EXCEPT ![prediction.qid] = @ + 1],
                            Append(preds, entry))

preds_by_lang(lines) == group_predictions(lines, [q \in Qids |-> 0], <<>>)

InitEvaluate ==
  /\ phase = "evaluate"
  /\ prediction_path \in FilesOf(FilePredictions)
  /\ ev = ev_idle
  /\ others_idle
  /\ journal = <<>>
  /\ resume = resume_idle
  /\ config \in [num_workers : {1}, update_freq : {1, DefaultUpdateFreq}]
  /\ idle_but_journal

\* evaluate_predictions up to its call of execute_bc_predictions, lines
\* 120-245: prior results are loaded when the output directory exists, the
\* predictions are read and keyed, the questions are taken from them.
evaluate_predictions ==
  /\ phase = "evaluate"
  /\ ev.pc = "idle"
  /\ LET must_load_progress == ev.run > 1
         got == IF must_load_progress THEN load_progress_from_dir(journal)
                ELSE [raised |-> "", parsed |-> <<>>, file |-> journal]
         preds == preds_by_lang(prediction_path)
     IN /\ loads' = IF must_load_progress
                    THEN Append(loads, [read |-> journal, raised |-> got.raised,
                                        parsed |-> got.parsed, file |-> got.file])
                    ELSE loads
        /\ journal' = got.file
        /\ IF got.raised # ""
           THEN /\ phase' = "raised"
                /\ ev' = [ev EXCEPT !.pc = "raised"]
                /\ UNCHANGED resume
           ELSE /\ phase' = "resume"
                /\ ev' = [ev EXCEPT !.pc = "running", !.grouped = preds,
                                    !.first = IF ev.run = 1 THEN preds ELSE @]
                /\ resume' =
                     [resume_idle EXCEPT
                        !.pc = "called",
                        !.given = {preds[k].key : k \in 1..Len(preds)},
                        !.raw_predictions = preds,
                        !.question_mapping =
                           {split_qid(preds[k].key) : k \in 1..Len(preds)},
                        !.executed_predictions =
                           existing_results_get(got.parsed, Language)]
  /\ UNCHANGED <<classVars, execVars, batchVars, prediction_path, otherVars>>

\* The first run ends, by itself or killed, and the program is run again on
\* the same output directory with the lines of the predictions file in some
\* order.  What the first run had put on disk is the journal of the second.
restart ==
  /\ ev.run = 1
  /\ phase \in {"predictions", "done", "aggregated", "raised"}
  /\ phase' = "evaluate"
  /\ journal' = journal \o [k \in 1..Len(files.disk) |-> RecordLine(files.disk[k])]
  /\ prediction_path' \in {f \in FilesOf(Range(prediction_path)) :
                              Len(f) = Len(prediction_path)}
  /\ ev' = [ev_idle EXCEPT !.run = 2, !.first = ev.first]
  /\ resume' = resume_idle
  /\ loads' = <<>>
  /\ predictions' = <<>>
  /\ ep' = ep_idle
  /\ pool' = pool_idle
  /\ files' = files_none
  /\ UNCHANGED <<classVars, execVars, config, otherVars>>

NextEvaluate ==
  \/ evaluate_predictions
  \/ restart
  \/ run_executions_skip
  \/ run_executions_setup
  \/ run_executions_return
  \/ execute_predictions_call
  \/ pool_start_task
  \/ exec_wrapper
  \/ imap_unordered_next
  \/ execute_predictions_return
  \/ buffer_flush

SpecEvaluate == InitEvaluate /\ [][NextEvaluate]_vars

\* C2: execute_code spawns the commands strictly in list order, and spawns
\* command i+1 only after command i has exited with status 0 without timing
\* out; once a command has exited with a non-zero status no later command is
\* spawned and the result says had_error.
C2_Failed(b) == b.kind = "exit" /\ b.code # 0
C2_Clean(b) == b.kind = "exit" /\ b.code = 0

C2_InOrderUntilFirstFailure ==
  phase \in {"code", "returned", "assembled", "raised"} =>
    /\ \A j \in 1..Len(ec.spawned) : ec.spawned[j] = j - 1
    /\ \A j \in 1..(Len(ec.spawned) - 1) : C2_Clean(ec.exits[j])
    /\ (ec.exits # <<>> /\ C2_Failed(Last(ec.exits))) =>
         /\ ec.pc \in {"after_loop", "returned"}
         /\ ec.pc = "returned" =>
              /\ execution_result.had_error
              /\ execution_result.last_ran_command_idx = Len(ec.spawned) - 1

\* The first of several commands exited with a non-zero status and
\* execute_code has returned.
C2_Witness ==
  /\ phase = "returned"
  /\ Len(commands) >= 2
  /\ Len(ec.spawned) = 1
  /\ C2_Failed(ec.exits[1])
  /\ execution_result.had_error

\* C3: every ExecutionResult execute_code returns has all_commands_ran
\* exactly when last_ran_command_idx + 1 = len(commands), has one runtime
\* slot and one memory slot per command, holds in slot i what command i took
\* for every command that ran, and None in the slot of every command that
\* did not.
C3_RuntimeMs(command, b) ==
  IF b.kind = "timeout" THEN command.timeout * 1000 ELSE b.runtime \div 1000

C3_Shape(er, exits) ==
  /\ er.all_commands_ran <=> (er.last_ran_command_idx + 1 = Len(er.commands))
  /\ Len(er.command_runtimes) = Len(er.commands)
  /\ Len(er.command_memory) = Len(er.commands)
  /\ er.last_ran_command_idx = Len(exits) - 1
  /\ \A i \in 0..(Len(er.commands) - 1) :
       IF i <= er.last_ran_command_idx
       THEN /\ At(er.command_runtimes, i) =
                 C3_RuntimeMs(At(er.commands, i), At(exits, i))
            /\ At(er.command_memory, i) = At(exits, i).memory
       ELSE /\ At(er.command_runtimes, i) = NoneNum
            /\ At(er.command_memory, i) = NoneNum

C3_ResultShape ==
  phase \in {"returned", "assembled"} => C3_Shape(execution_result, ec.exits)

\* A result of a run that stopped before the last command.
C3_Witness ==
  /\ phase = "returned"
  /\ Len(commands) >= 2
  /\ execution_result.last_ran_command_idx = 0
  /\ ~execution_result.all_commands_ran
  /\ At(execution_result.command_runtimes, 0) # NoneNum
  /\ At(execution_result.command_runtimes, 1) = NoneNum

\* C4: a command that exceeds its time limit never makes execute_code raise:
\* execute_code returns a result with timed_out set, an empty stdout,
\* last_ran_command_idx the index of that command and its runtime slot the
\* command's timeout in milliseconds; no later command is spawned; result
\* assembly gives the outcome TIMED_OUT.
C4_TimeoutHandled ==
  (phase \in {"code", "returned", "assembled", "raised"}
     /\ \E j \in 1..Len(ec.exits) : ec.exits[j].kind = "timeout") =>
    /\ Last(ec.exits).kind = "timeout"
    /\ phase \in {"returned", "assembled"}
    /\ ec.raised = ""
    /\ execution_result.timed_out
    /\ execution_result.stdout = <<>>
    /\ execution_result.last_ran_command_idx = Len(ec.exits) - 1
    /\ At(execution_result.command_runtimes, Len(ec.exits) - 1) =
         At(commands, Len(ec.exits) - 1).timeout * 1000
    /\ phase = "assembled" => prediction_result.outcome = TIMED_OUT

\* The first of two commands timed out and the result was assembled.
C4_Witness ==
  /\ phase = "assembled"
  /\ Len(commands) = 2
  /\ Len(ec.exits) = 1
  /\ ec.exits[1].kind = "timeout"
  /\ prediction_result.outcome = TIMED_OUT

\* C5: unless ALLOW_EXECUTION is exactly 'true', execute_code and
\* execute_predictions raise before anything is created: no command is
\* spawned, no pool is made, no output file is opened or written.
C5_Gate ==
  environ # "true" =>
    /\ ec.spawned = <<>>
    /\ pool.spawned = {}
    /\ pool.finished = {}
    /\ ~pool.created
    /\ ~files.opened
    /\ files.buffer = <<>> /\ files.disk = <<>>
    /\ phase \in {"code", "predictions", "raised"}
    /\ phase = "raised" => (ec.raised = "ValueError" \/ ep.raised = "ValueError")

\* execute_predictions has refused a batch under ALLOW_EXECUTION=True.
C5_Witness ==
  /\ environ = "True"
  /\ phase = "raised"
  /\ ep.raised = "ValueError"
  /\ Len(predictions) > 0

\* C6: at every point of execute_predictions at most one result received
\* from a worker is not yet on disk in the execution journal.
C6_AtMostOneUnwritten ==
  phase \in {"predictions", "raised"} =>
    Len(ep.results) - Len(files.disk) <= 1

\* C7: a prediction whose execution fails never aborts the batch: when
\* execute_predictions ends, every prediction it was to execute has been
\* executed, and every one whose own execution raised nothing has its result
\* returned and in the journal.
C7_BatchNeverAborts ==
  (phase \in {"done", "raised"} /\ ep.executor_args # <<>>) =>
    \A k \in Range(ep.executor_args) :
      /\ \E f \in pool.finished : f.arg = k
      /\ \A f \in pool.finished :
           (f.arg = k /\ f.raised = "") =>
             /\ ep.returned
             /\ \E r \in Range(ep.results) : r.prediction = predictions[k]
             /\ \E d \in Range(files.disk) :
                  d.qid = predictions[k].qid /\ d.id = predictions[k].id

\* C8: with a journal of prior results, a prediction of the batch whose key
\* is journalled is never executed again, every other prediction of the
\* batch whose question is in the question mapping is executed, and at
\* aggregation the results hold exactly one result per such key of the batch
\* (the journalled one for the skipped keys, the fresh one for the others)
\* and none for a journalled key that is not in the batch.
C8_Journalled == IF loads = <<>> THEN {} ELSE keys_of(loads[1].parsed)
C8_Ran == {result_key([prediction |-> predictions[f.arg]]) : f \in pool.finished}
C8_Started ==
  {result_key([prediction |-> predictions[k]]) :
     k \in Range(pool.pending) \cup pool.running \cup {f.arg : f \in pool.finished}}
C8_Known == {k \in resume.given : split_qid(k) \in resume.question_mapping}
C8_ResultsFor(k) ==
  {j \in 1..Len(resume.raw_results) : result_key(resume.raw_results[j]) = k}
C8_OneResultPer(keys) ==
  /\ \A k \in keys :
       /\ Cardinality(C8_ResultsFor(k)) = 1
       /\ \A j \in C8_ResultsFor(k) :
            IF k \in C8_Journalled
            THEN resume.raw_results[j] \in Range(loads[1].parsed)
            ELSE resume.raw_results[j] \in Range(ep.results)
  /\ keys_of(resume.raw_results) \subseteq keys

C9_WellFormed(line) == line.json = "object" /\ line.lacks = "" /\ ~line.extra
C9_DiscardsBrokenLines ==
  (phase = "journal" /\ loads # <<>>) =>
     LET got == loads[1]
         kept == {l \in Range(got.read) : C9_WellFormed(l)}
     IN /\ got.raised = ""
        /\ keys_of(got.parsed) = {l.fields.qid \o "/" \o l.fields.id : l \in kept}
        /\ \A r \in Range(got.parsed) : RecordLine(to_dict(r)) \in kept
        /\ Range(got.file) = {RecordLine(to_dict(r)) : r \in Range(got.parsed)}
        /\ Len(got.file) = Len(got.parsed)

\* C10: loading the same journal twice yields the same records and the same
\* file contents, and a loaded result serialized and loaded again is an
\* equal result.
C10_LoadIsIdempotent ==
  (phase = "journal" /\ Len(loads) = 2) =>
     /\ loads[2].raised = loads[1].raised
     /\ loads[2].parsed = loads[1].parsed
     /\ loads[2].file = loads[1].file
     /\ \A r \in Range(loads[2].parsed) :
          from_dict(RecordLine(to_dict(r))) = [raised |-> "", result |-> r]

C10_Witness ==
  /\ phase = "journal"
  /\ Len(loads) = 2
  /\ loads[1].raised = ""
  /\ Len(loads[1].parsed) = 2
  /\ Len(loads[1].read) = 3
  /\ \E l \in Range(loads[1].read) : ~C9_WellFormed(l)

\* ------------------------------------------------------ a driver file
\* Longest candidate program, in tokens.
MaxCode == 2

\* str.replace(old, new) on a text: every occurrence, left to right.
RECURSIVE str_replace(_, _, _)
str_replace(text, old, new) ==
  IF text = <<>> THEN <<>>
  ELSE (IF Head(text) = old THEN new ELSE <<Head(text)>>)
         \o str_replace(Tail(text), old, new)

\* a or b, for an Optional[str] a and a string b.
or_else(a, b) == IF a = <<>> \/ a[1] = <<>> THEN b ELSE a[1]

\* Lines 274-277: the entry points of the prediction dict when
\* force_question_entry is set.
forced_entry(question, pred_dict, force_question_entry) ==
  IF force_question_entry
  THEN [pred_dict EXCEPT
          !.entry_fn_name = <<question.entry_fn_name>>,
          !.entry_cls_name = IF @ # <<>> THEN <<question.entry_cls_name>> ELSE @]
  ELSE pred_dict

\* Lines 278-291: the text written to code_path.
driver_code(question, pred_dict, force_question_entry) ==
  LET prediction == forced_entry(question, pred_dict, force_question_entry)
      code == str_replace(question.test_code, PLACEHOLDER_CODE_BODY, prediction.code)
      entry_fn_name == or_else(prediction.entry_fn_name, question.entry_fn_name)
      entry_cls_name == or_else(prediction.entry_cls_name, question.entry_cls_name)
      code_fn == str_replace(code, PLACEHOLDER_FN_NAME, entry_fn_name)
  IN str_replace(code_fn, PLACEHOLDER_CLS_NAME, entry_cls_name)

\* What a candidate can hold, token by token, and what a generated test
\* program looks like before the candidate is put in.
CodeTokens == {"pass", PLACEHOLDER_CODE_BODY, PLACEHOLDER_FN_NAME, PLACEHOLDER_CLS_NAME}
TestCodes ==
  {<<"import", PLACEHOLDER_CODE_BODY, "assert", PLACEHOLDER_CLS_NAME, PLACEHOLDER_FN_NAME>>,
   <<PLACEHOLDER_CODE_BODY, "print", PLACEHOLDER_FN_NAME>>}

InitSetup ==
  /\ phase = "setup"
  /\ \E test_code \in TestCodes, code \in SeqsUpTo(CodeTokens, MaxCode),
        fn \in {<<>>, <<<<>>>>, <<<<"g">>>>}, cls \in {<<>>, <<<<"G">>>>},
        force \in BOOLEAN :
       setup = [question |-> [test_code |-> test_code, entry_fn_name |-> <<"f">>,
                              entry_cls_name |-> <<"Solution">>],
                pred_dict |-> [code |-> code, entry_fn_name |-> fn,
                               entry_cls_name |-> cls],
                force_question_entry |-> force]
  /\ code_path = <<>>
  /\ question_unused
  /\ schema_unused
  /\ prediction_path = <<>>
  /\ ev = ev_idle
  /\ journal = <<>>
  /\ resume = resume_idle
  /\ config = [num_workers |-> 1, update_freq |-> DefaultUpdateFreq]
  /\ idle_but_journal

\* One turn of the loop of setup_language_code_dirs for a known question:
\* lines 270-297.
write_driver ==
  /\ phase = "setup"
  /\ code_path' = driver_code(setup.question, setup.pred_dict,
                              setup.force_question_entry)
  /\ phase' = "written"
  /\ UNCHANGED <<classVars, execVars, batchVars, resumeVars, evalVars, setup, questionVars, schemaVars>>

NextSetup == write_driver

SpecSetup == InitSetup /\ [][NextSetup]_vars

\* ------------------------------------------------------------ SchemaType
\* A generic type string is a sequence of tokens: names, "<", ">", ";", "|",
\* "," and "[]".  A SchemaType is [type_str, lang_type, elements, key_type],
\* type_str a sequence of tokens as well, key_type <<>> for None and <<t>>
\* for a type t.  A call gives [raised, type]: the exception's name or "",
\* and the SchemaType it returned.
PRIMITIVE_TYPES ==
  {"string", "integer", "boolean", "float", "double", "character", "long"}
PRIMITIVE_DATA_STRUCTURES == {"list", "map", "tuple", "set"}

NOT_SET == "NOT_SET"
NoType == [type_str |-> <<>>, lang_type |-> NOT_SET, elements |-> <<>>, key_type |-> <<>>]
Raised(name) == [raised |-> name, type |-> NoType]
Returned(type) == [raised |-> "", type |-> type]

\* SchemaType(type_str, elements=..., key_type=...) with __post_init__.
SchemaType(type_str, elements, key_type) ==
  IF key_type # <<>> /\ elements = <<>> THEN Raised("SchemaTypeError")
  ELSE IF Len(type_str) = 1 /\ type_str[1] \in PRIMITIVE_DATA_STRUCTURES /\ elements = <<>>
  THEN Raised("SchemaTypeError")
  ELSE Returned([type_str |-> type_str, lang_type |-> NOT_SET,
                 elements |-> elements, key_type |-> key_type])

Leaf(name) == SchemaType(<<name>>, <<>>, <<>>).type
is_leaf(t) == Len(t.elements) = 0

\* str.count, str.find (0 when absent, else the place of the first one).
str_count(text, tok) == Cardinality({k \in 1..Len(text) : text[k] = tok})
str_find(text, tok) ==
  IF str_count(text, tok) = 0 THEN 0
  ELSE CHOOSE k \in 1..Len(text) :
         text[k] = tok /\ \A j \in 1..(k - 1) : text[j] # tok

\* _split_tuple_children, lines 42-62, character by character.
RECURSIVE split_tuple_scan(_, _, _, _)
split_tuple_scan(text, out, current, num_open) ==
  IF text = <<>>
  THEN IF num_open # 0 THEN [raised |-> "SchemaTypeError", out |-> <<>>]
       ELSE [raised |-> "",
             out |-> IF current # <<>> THEN Append(out, current) ELSE out]
  ELSE LET character == Head(text)
       IN IF character = "|" /\ num_open = 0
          THEN split_tuple_scan(Tail(text), Append(out, current), <<>>, num_open)
          ELSE IF character = ">" /\ num_open - 1 < 0
          THEN [raised |-> "SchemaTypeError", out |-> <<>>]
          ELSE split_tuple_scan(Tail(text), out, Append(current, character),
                                IF character = "<" THEN num_open + 1
                                ELSE IF character = ">" THEN num_open - 1
                                ELSE num_open)

split_tuple_children(child_type_str) == split_tuple_scan(child_type_str, <<>>, <<>>, 0)

\* str.replace('[]', '', 1)
replace_first(text, tok) ==
  LET at == str_find(text, tok)
  IN IF at = 0 THEN text
     ELSE SubSeq(text, 1, at - 1) \o SubSeq(text, at + 1, Len(text))

\* cls(type_str=..., elements=[the calls' values], key_type=...): the
\* arguments are evaluated in the order they are written, and the first one
\* that raises ends the call.
construct(type_str, calls, key_call) ==
  LET all == key_call \o calls
      raising == {k \in 1..Len(all) : all[k].raised # ""}
      first == CHOOSE k \in raising : \A j \in raising : k <= j
  IN IF raising # {} THEN Raised(all[first].raised)
     ELSE SchemaType(type_str, [k \in 1..Len(calls) |-> calls[k].type],
                     IF key_call = <<>> THEN <<>> ELSE <<key_call[1].type>>)

RECURSIVE from_generic_type_string(_)
from_generic_type_string(type_str) ==
  LET open_count == str_count(type_str, "<")
      at == str_find(type_str, "<")
      type_name == SubSeq(type_str, 1, at - 1)
      joined == SubSeq(type_str, at + 1, Len(type_str))
      children_types == SubSeq(joined, 1, Len(joined) - 1)
      semi == str_find(children_types, ";")
      key_value == SubSeq(children_types, 1, semi - 1)
      value == SubSeq(children_types, semi + 1, Len(children_types))
      split == split_tuple_children(children_types)
      all_children == split.out
  IN IF open_count # str_count(type_str, ">") THEN Raised("SchemaTypeError")
     ELSE IF str_count(type_str, "[]") > 0
     THEN IF open_count # 0 THEN Raised("SchemaTypeError")
          ELSE construct(<<"list">>,
                         <<from_generic_type_string(replace_first(type_str, "[]"))>>,
                         <<>>)
     ELSE IF open_count = 0 THEN SchemaType(type_str, <<>>, <<>>)
     ELSE IF joined = <<>> THEN Raised("IndexError")
     ELSE IF joined[Len(joined)] # ">" THEN Raised("SchemaTypeError")
     ELSE IF type_name = <<"map">>
     THEN IF semi = 0 THEN Raised("SchemaTypeError")
          ELSE construct(type_name, <<from_generic_type_string(value)>>,
                         <<from_generic_type_string(key_value)>>)
     ELSE IF type_name = <<"tuple">>
     THEN IF split.raised # "" THEN Raised(split.raised)
          ELSE IF Cardinality(Range(all_children)) = 1
          THEN construct(<<"list">>, <<from_generic_type_string(all_children[1])>>, <<>>)
          ELSE construct(type_name,
                         [k \in 1..Len(all_children) |->
                            from_generic_type_string(all_children[k])],
                         <<>>)
     ELSE construct(type_name, <<from_generic_type_string(children_types)>>, <<>>)

\* delim.join(texts)
RECURSIVE str_join(_, _)
str_join(delim, texts) ==
  IF texts = <<>> THEN <<>>
  ELSE IF Len(texts) = 1 THEN texts[1]
  ELSE texts[1] \o <<delim>> \o str_join(delim, Tail(texts))

\* to_generic gives [raised, text]: key_type.to_generic() of a map whose
\* key_type is None is an AttributeError.
RECURSIVE to_generic(_)
to_generic(t) ==
  LET generic_elements == [k \in 1..Len(t.elements) |-> to_generic(t.elements[k])]
      key == IF t.key_type = <<>> THEN <<>> ELSE <<to_generic(t.key_type[1])>>
      texts == [k \in 1..Len(generic_elements) |-> generic_elements[k].text]
      failed(calls) == \E k \in 1..Len(calls) : calls[k].raised # ""
  IN IF failed(generic_elements) THEN [raised |-> "AttributeError", text |-> <<>>]
     ELSE IF t.type_str \in {<<"list">>, <<"tuple">>, <<"set">>}
     THEN [raised |-> "",
           text |-> t.type_str \o <<"<">>
                    \o str_join(IF t.type_str = <<"tuple">> THEN "|" ELSE ",", texts)
                    \o <<">">>]
     ELSE IF t.type_str = <<"map">>
     THEN IF key = <<>> \/ failed(key) THEN [raised |-> "AttributeError", text |-> <<>>]
          ELSE IF texts = <<>> THEN [raised |-> "IndexError", text |-> <<>>]
          ELSE [raised |-> "",
                text |-> <<"map", "<">> \o key[1].text \o <<";">> \o texts[1] \o <<">">>]
     ELSE [raised |-> "", text |-> t.type_str]

\* ----------------------------------------------------- the types at hand
\* Tuples have up to MaxArity elements.  The types are the leaves, the
\* containers of leaves and the containers of those.
MaxArity == 2
LeafNames == PRIMITIVE_TYPES \cup {"null"}

Node(name, elements, key_type) ==
  [type_str |-> <<name>>, lang_type |-> NOT_SET, elements |-> elements, key_type |-> key_type]

Types ==
  LET UpTo(S) == UNION {[1..n -> S] : n \in 1..MaxArity}
      Leaves == {Leaf(name) : name \in LeafNames}
      ElementLeaves == {Leaf(name) : name \in {"integer", "long", "string", "null"}}
      Flat == {Node(name, <<e>>, <<>>) : name \in {"list", "set"}, e \in ElementLeaves}
                \cup {Node("map", <<e>>, <<Leaf(k)>>) :
                        e \in ElementLeaves, k \in {"string", "integer"}}
                \cup {Node("tuple", es, <<>>) : es \in UpTo(ElementLeaves)}
      Plain == {Node("list", <<Leaf("integer")>>, <<>>)}
                 \cup {Node("tuple", es, <<>>) : es \in UpTo({Leaf("integer")})}
      Nested == {Node("list", <<f>>, <<>>) : f \in Flat}
                  \cup {Node("map", <<f>>, <<Leaf("string")>>) : f \in Flat}
                  \cup {Node("tuple", <<f, g>>, <<>>) : f \in Plain, g \in Plain}
  IN Leaves \cup Flat \cup Nested

\* The strings given to the parser: the types as written, the bracket form
\* of a list, and strings that are not types.
TypeStrings ==
  LET Shallow == {t \in Types : \A k \in 1..Len(t.elements) : is_leaf(t.elements[k])}
  IN {to_generic(t).text : t \in Types}
       \cup {to_generic(t).text \o <<"[]">> : t \in Shallow}
       \cup {<<"integer", "[]", "[]">>, <<"foo", "<", "integer", ">">>,
             <<"map", "<", "integer", ">">>, <<"tuple", "<", ">">>, <<">", "<">>,
             <<"list", "<", "integer", ">", "integer">>, <<"list">>}
       \cup {SubSeq(to_generic(t).text, 1, Len(to_generic(t).text) - 1) :
               t \in {f \in Shallow : ~is_leaf(f)}}

InitParse ==
  /\ phase = "schema"
  /\ \E type_str \in TypeStrings : schema = <<type_str>>
  /\ returned = <<>>
  /\ late_unused
  /\ setup_unused
  /\ question_unused
  /\ prediction_path = <<>>
  /\ ev = ev_idle
  /\ journal = <<>>
  /\ resume = resume_idle
  /\ config = [num_workers |-> 1, update_freq |-> DefaultUpdateFreq]
  /\ idle_but_journal

\* SchemaType.from_generic_type_string(type_str)
parse ==
  /\ phase = "schema"
  /\ returned' = <<from_generic_type_string(schema[1])>>
  /\ phase' = "parsed"
  /\ UNCHANGED <<classVars, execVars, batchVars, resumeVars, evalVars,
                 setupVars, questionVars, schema, lateVars>>

\* SchemaType.from_generic_type_string(t.to_generic()) of the t returned.
parse_again ==
  /\ phase = "parsed"
  /\ returned[1].raised = ""
  /\ LET generic == to_generic(returned[1].type)
     IN returned' = <<returned[1], generic,
                      IF generic.raised # "" THEN Raised(generic.raised)
                      ELSE from_generic_type_string(generic.text)>>
  /\ phase' = "parsed again"
  /\ UNCHANGED <<classVars, execVars, batchVars, resumeVars, evalVars,
                 setupVars, questionVars, schema, lateVars>>

NextParse ==
  \/ parse
  \/ parse_again

SpecParse == InitParse /\ [][NextParse]_vars

\* ------------------------------------------- reconcile_type, is_generic_equal
RECONCILABLE_TYPES ==
  [float |-> {"double"}, integer |-> {"long", "float", "double"},
   long |-> {"double"}, character |-> {"string"}]

\* type_str in a collection of names
str_in(type_str, names) == Len(type_str) = 1 /\ type_str[1] \in names

is_reconcilable(schema_type) == str_in(schema_type.type_str, DOMAIN RECONCILABLE_TYPES)

\* RECONCILABLE_TYPES.get(type_str, set()), without the long entry.
target_types_mut(type_str) ==
  IF str_in(type_str, DOMAIN RECONCILABLE_TYPES \ {"long"})
  THEN RECONCILABLE_TYPES[type_str[1]] ELSE {}

\* RECONCILABLE_TYPES.get(type_str, set())
target_types(type_str) ==
  IF str_in(type_str, DOMAIN RECONCILABLE_TYPES)
  THEN RECONCILABLE_TYPES[type_str[1]] ELSE {}

\* What reconcile_type gives is [raised, value], value <<>> for None and
\* <<t>> for a type t.
ReturnNone == [raised |-> "", value |-> <<>>]
Raise(name) == [raised |-> name, value |-> <<>>]

\* return SchemaType.from_generic_type_string(t.to_generic())
return_parsed(t) ==
  LET generic == to_generic(t)
      parsed == from_generic_type_string(generic.text)
  IN IF generic.raised # "" THEN Raise(generic.raised)
     ELSE IF parsed.raised # "" THEN Raise(parsed.raised)
     ELSE [raised |-> "", value |-> <<parsed.type>>]

\* reconcile_type of two leaves that takes the right type only.
reconcile_type_mut(left, right) ==
  IF is_leaf(left) /\ is_leaf(right) /\ str_in(right.type_str, target_types(left.type_str))
  THEN return_parsed(right)
  ELSE ReturnNone

RECURSIVE reconcile_type(_, _)
reconcile_type(left, right) ==
  IF left.lang_type # NOT_SET \/ right.lang_type # NOT_SET THEN Raise("SchemaTypeError")
  ELSE IF is_leaf(left) \/ is_leaf(right)
  THEN IF ~is_leaf(left) \/ ~is_leaf(right) THEN ReturnNone
       ELSE IF is_reconcilable(left) \/ is_reconcilable(right)
       THEN IF str_in(right.type_str, target_types(left.type_str)) THEN return_parsed(right)
            ELSE IF str_in(left.type_str, target_types(right.type_str)) THEN return_parsed(left)
            ELSE ReturnNone
       ELSE ReturnNone
  ELSE IF left.type_str # right.type_str THEN ReturnNone
  ELSE IF Len(left.elements) # Len(right.elements) THEN ReturnNone
  ELSE IF left.key_type # right.key_type THEN ReturnNone
  ELSE LET new == [k \in 1..Len(left.elements) |->
                     reconcile_type(left.elements[k], right.elements[k])]
           stops == {k \in 1..Len(new) : new[k].raised # "" \/ new[k].value = <<>>}
           stop == CHOOSE k \in stops : \A j \in stops : k <= j
           new_elements == [k \in 1..Len(new) |-> new[k].value[1]]
       IN IF stops # {}
          THEN IF new[stop].raised # "" THEN Raise(new[stop].raised) ELSE ReturnNone
          ELSE return_parsed([left EXCEPT !.elements = new_elements])

\* is_generic_equal where only a null on the left is equal to anything.
is_generic_equal_mut(left, right) ==
  IF is_leaf(left) \/ is_leaf(right)
  THEN left.type_str = <<"null">> \/ left.type_str = right.type_str
  ELSE left = right

RECURSIVE is_generic_equal(_, _)
is_generic_equal(left, right) ==
  IF is_leaf(left) \/ is_leaf(right)
  THEN IF left.type_str = <<"null">> \/ right.type_str = <<"null">> THEN TRUE
       ELSE left.type_str = right.type_str
  ELSE IF left.type_str # right.type_str THEN FALSE
  ELSE IF left.type_str = <<"map">>
          /\ (left.key_type = <<>> \/ right.key_type = <<>>) THEN FALSE
  ELSE IF left.type_str = <<"map">>
          /\ ~is_generic_equal(left.key_type[1], right.key_type[1]) THEN FALSE
  ELSE IF Len(left.elements) # Len(right.elements) THEN FALSE
  ELSE \A k \in 1..Len(left.elements) :
         is_generic_equal(left.elements[k], right.elements[k])

InitReconcile ==
  /\ phase = "schema"
  /\ \E left \in Types, right \in Types : schema = <<left, right>>
  /\ returned = <<>>
  /\ late_unused
  /\ setup_unused
  /\ question_unused
  /\ prediction_path = <<>>
  /\ ev = ev_idle
  /\ journal = <<>>
  /\ resume = resume_idle
  /\ config = [num_workers |-> 1, update_freq |-> DefaultUpdateFreq]
  /\ idle_but_journal

\* reconcile_type(left, right) and reconcile_type(right, left)
reconcile ==
  /\ phase = "schema"
  /\ returned' = <<reconcile_type(schema[1], schema[2]),
                   reconcile_type(schema[2], schema[1])>>
  /\ phase' = "reconciled"
  /\ UNCHANGED <<classVars, execVars, batchVars, resumeVars, evalVars,
                 setupVars, questionVars, schema, lateVars>>

\* is_generic_equal(left, right) and is_generic_equal(right, left)
compare ==
  /\ phase = "schema"
  /\ returned' = <<is_generic_equal(schema[1], schema[2]),
                   is_generic_equal(schema[2], schema[1])>>
  /\ phase' = "compared"
  /\ UNCHANGED <<classVars, execVars, batchVars, resumeVars, evalVars,
                 setupVars, questionVars, schema, lateVars>>

NextReconcile ==
  \/ reconcile
  \/ compare

SpecReconcile == InitReconcile /\ [][NextReconcile]_vars

\* ------------------------------------------- safe_execute, step by step
\* procs lists the processes the command has started, the Popen child
\* first: who started each (0 for the harness), whether it is alive, and
\* the return code it left.  At most MaxProcs are started.
MaxProcs == 3

InitKill ==
  /\ phase = "safe_execute"
  /\ procs = <<>>
  /\ \E timeout \in Timeouts :
       sexec = [pc |-> "start", command |-> [command |-> 0, timeout |-> timeout],
                timed_out |-> FALSE, return_code |-> -1, runtime |-> timeout,
                outputs |-> NoOutputs]
  /\ schema = <<>>
  /\ returned = <<>>
  /\ gen_unused
  /\ writer_unused
  /\ rename_unused
  /\ setup_unused
  /\ question_unused
  /\ prediction_path = <<>>
  /\ ev = ev_idle
  /\ journal = <<>>
  /\ resume = resume_idle
  /\ config = [num_workers |-> 1, update_freq |-> DefaultUpdateFreq]
  /\ idle_but_journal

kill_frame ==
  UNCHANGED <<phase, classVars, execVars, batchVars, resumeVars, evalVars, setupVars,
              questionVars, schema, returned, gen, writerVars, renamed>>

\* Lines 97-105: subprocess.Popen starts the child, or raises.
popen ==
  /\ sexec.pc = "start"
  /\ \/ /\ procs' = <<[parent |-> 0, alive |-> TRUE, code |-> NoneNum]>>
        /\ sexec' = [sexec EXCEPT !.pc = "poll"]
     \/ /\ sexec' = [sexec EXCEPT !.pc = "raised"]
        /\ UNCHANGED procs
  /\ kill_frame

\* A process the command started starts one of its own.
fork ==
  /\ Len(procs) < MaxProcs
  /\ \E p \in 1..Len(procs) :
       /\ procs[p].alive
       /\ procs' = Append(procs, [parent |-> p, alive |-> TRUE, code |-> NoneNum])
  /\ UNCHANGED sexec
  /\ kill_frame

\* A process ends by itself; the ones it started live on.
proc_exit ==
  /\ \E p \in 1..Len(procs), code \in {0, 1} :
       /\ procs[p].alive
       /\ procs' = [procs EXCEPT ![p] = [@ EXCEPT !.alive = FALSE, !.code = code]]
  /\ UNCHANGED sexec
  /\ kill_frame

\* Lines 110-116: poll() is not None, so the loop and the time limit are
\* left, and communicate() and returncode are read.
poll_done ==
  /\ sexec.pc = "poll"
  /\ ~procs[1].alive
  /\ sexec' = [sexec EXCEPT !.pc = "finally",
                            !.outputs = [stdout |-> <<>>, stderr |-> ""],
                            !.runtime = 0,
                            !.return_code = procs[1].code]
  /\ UNCHANGED procs
  /\ kill_frame

\* Lines 51-52, 117-119: the interval timer fires inside the time limit.
signal_handler ==
  /\ sexec.pc = "poll"
  /\ sexec' = [sexec EXCEPT !.pc = "finally",
                            !.timed_out = TRUE,
                            !.runtime = timedelta_seconds(sexec.command.timeout)]
  /\ UNCHANGED procs
  /\ kill_frame

\* Lines 120-128: execution_process.kill(), then the CommandResult.
kill_and_return ==
  /\ sexec.pc = "finally"
  /\ procs' = [procs EXCEPT ![1] = [@ EXCEPT !.alive = FALSE,
                                             !.code = IF @ = NoneNum THEN -9 ELSE @]]
  /\ sexec' = [sexec EXCEPT !.pc = "returned"]
  /\ kill_frame

NextKill ==
  \/ popen
  \/ fork
  \/ proc_exit
  \/ poll_done
  \/ signal_handler
  \/ kill_and_return

SpecKill == InitKill /\ [][NextKill]_vars

\* ------------------------------------------------- validate_correct_type
\* A Python value is [py, v, items]: the name of its type, its text when it
\* is a scalar ("1" for 1, "1.0" for 1.0, "True" for True), and its items
\* when it is a list, a tuple or a dict; an item of a dict is the value
\* ["item", "", <<key, value>>], in the order of the dict.
Py(py, v, items) == [py |-> py, v |-> v, items |-> items]
PyNone == Py("NoneType", "", <<>>)

GENERIC_TO_PYTHON_TYPE ==
  [list |-> "list", integer |-> "int", long |-> "int", float |-> "float",
   double |-> "float", boolean |-> "bool", string |-> "str", set |-> "list",
   map |-> "dict", tuple |-> "tuple", character |-> "str"]

\* allows_null for every type.
allows_null_mut(type_str) == TRUE

allows_null(type_str) ==
  str_in(type_str, {"string", "character"} \cup PRIMITIVE_DATA_STRUCTURES)

\* isinstance(value, expected_type): bool is a subclass of int.
isinstance(value, expected_type) ==
  value.py = expected_type \/ (expected_type = "int" /\ value.py = "bool")

\* float(value) of an int or a bool.
float(value) ==
  Py("float", IF value.py = "bool" THEN (IF value.v = "True" THEN "1.0" ELSE "0.0")
              ELSE value.v \o ".0", <<>>)

\* int(k) of a key: the keys that are numerals.
Numerals == {"1", "2"}

\* value = new_values, an element equal to the first one left out.
new_list_mut(new_values) ==
  Py("list", "", IF Len(new_values) >= 2 /\ new_values[Len(new_values)] = new_values[1]
                 THEN SubSeq(new_values, 1, Len(new_values) - 1) ELSE new_values)

\* value = new_values
new_list(new_values) == Py("list", "", new_values)

RECURSIVE validate_correct_type(_, _)
validate_correct_type(schema_type, given) ==
  LET raise == [raised |-> "SchemaTypeError", value |-> PyNone]
      known == str_in(schema_type.type_str, DOMAIN GENERIC_TO_PYTHON_TYPE)
      expected_type == GENERIC_TO_PYTHON_TYPE[schema_type.type_str[1]]
      type_allows_null == allows_null(schema_type.type_str)
      \* value = expected_type() for None
      filled == IF given = PyNone /\ type_allows_null
                THEN Py(expected_type, "", <<>>) ELSE given
      value == IF ~isinstance(filled, expected_type) /\ expected_type = "float"
                  /\ isinstance(filled, "int")
               THEN float(filled) ELSE filled
      single_type(values) == Cardinality({values[k].py : k \in 1..Len(values)}) <= 1
      \* the elements of a list or set, and the values of a map
      inner(v) == validate_correct_type(schema_type.elements[1], v)
      each == IF schema_type.type_str = <<"map">>
              THEN [k \in 1..Len(value.items) |-> inner(value.items[k].items[2])]
              ELSE [k \in 1..Len(value.items) |-> inner(value.items[k])]
      new_values == [k \in 1..Len(each) |-> each[k].value]
      \* the keys of a map
      expected_key_type == GENERIC_TO_PYTHON_TYPE[schema_type.key_type[1].type_str[1]]
      old_key(k) == value.items[k].items[1]
      castable(k) == old_key(k).py = "int" \/ old_key(k).v \in Numerals
      new_key(k) == IF expected_key_type = "int" THEN Py("int", old_key(k).v, <<>>)
                    ELSE Py("str", old_key(k).v, <<>>)
      new_keys == [k \in 1..Len(value.items) |-> new_key(k)]
  IN IF ~known THEN raise
     ELSE IF ~type_allows_null /\ given = PyNone THEN raise
     ELSE IF ~isinstance(value, expected_type) THEN raise
     ELSE IF schema_type.type_str \in {<<"list">>, <<"set">>}
     THEN IF \E k \in 1..Len(each) : each[k].raised # "" THEN raise
          ELSE IF ~single_type(new_values) THEN raise
          ELSE [raised |-> "", value |-> new_list(new_values)]
     ELSE IF schema_type.type_str = <<"map">>
     THEN IF \E k \in 1..Len(each) : each[k].raised # "" THEN raise
          ELSE IF \E k \in 1..Len(value.items) : old_key(k).py \notin {"str", "int"} THEN raise
          ELSE IF expected_key_type = "int" /\ \E k \in 1..Len(value.items) : ~castable(k)
          THEN raise
          ELSE IF Cardinality(Range(new_keys)) # Len(new_keys) THEN raise
          ELSE IF ~single_type(new_values) \/ ~single_type(new_keys) THEN raise
          ELSE [raised |-> "",
                value |-> Py("dict", "",
                             [k \in 1..Len(new_keys) |->
                                Py("item", "", <<new_keys[k], new_values[k]>>)])]
     ELSE [raised |-> "", value |-> value]

\* The values at hand: scalars, lists of up to MaxItems scalars, dicts of
\* one entry or of the keys "1" and 1, and lists of one such list or dict.
MaxItems == 2

PyValues ==
  LET Scalars == {PyNone, Py("int", "1", <<>>), Py("bool", "True", <<>>),
                  Py("float", "1.0", <<>>), Py("str", "a", <<>>), Py("str", "1", <<>>)}
      Keys == {Py("str", "a", <<>>), Py("str", "1", <<>>), Py("int", "1", <<>>)}
      Lists == {Py("list", "", items) :
                  items \in UNION {[1..n -> Scalars] : n \in 0..MaxItems}}
      Dicts == {Py("dict", "", <<>>)}
                 \cup {Py("dict", "", <<Py("item", "", <<k, v>>)>>) : k \in Keys, v \in Scalars}
                 \cup {Py("dict", "", <<Py("item", "", <<Py("str", "1", <<>>), v>>),
                                        Py("item", "", <<Py("int", "1", <<>>), v>>)>>) :
                         v \in {Py("int", "1", <<>>)}}
  IN Scalars \cup Lists \cup Dicts
       \cup {Py("list", "", <<v>>) : v \in Lists \cup Dicts}

\* The declared types: leaves, containers of leaves, and lists and maps of
\* lists, sets and maps of leaves.
ValidatedTypes ==
  LET shallow(t) == \A k \in 1..Len(t.elements) : is_leaf(t.elements[k])
  IN {t \in Types :
        \/ shallow(t)
        \/ /\ t.type_str \in {<<"list">>, <<"map">>}
           /\ t.elements[1].type_str \in {<<"list">>, <<"set">>, <<"map">>}
           /\ shallow(t.elements[1])}

InitValidate ==
  /\ phase = "schema"
  /\ \E schema_type \in ValidatedTypes, value \in PyValues : schema = <<schema_type, value>>
  /\ returned = <<>>
  /\ late_unused
  /\ setup_unused
  /\ question_unused
  /\ prediction_path = <<>>
  /\ ev = ev_idle
  /\ journal = <<>>
  /\ resume = resume_idle
  /\ config = [num_workers |-> 1, update_freq |-> DefaultUpdateFreq]
  /\ idle_but_journal

\* validate_correct_type(schema_type, value)
validate ==
  /\ phase = "schema"
  /\ returned' = <<validate_correct_type(schema[1], schema[2])>>
  /\ phase' = "validated"
  /\ UNCHANGED <<classVars, execVars, batchVars, resumeVars, evalVars,
                 setupVars, questionVars, schema, lateVars>>

NextValidate == validate

SpecValidate == InitValidate /\ [][NextValidate]_vars

\* --------------------------------------------------- LiteralTranslator
\* A literal is a sequence of tokens.  A call gives [raised, literal].
\* `not value`
falsy(value) ==
  \/ value = PyNone
  \/ value.py \in {"list", "dict", "tuple", "str"} /\ value.v = "" /\ value.items = <<>>
  \/ value.py \in {"int", "float"} /\ value.v \in {"0", "0.0"}
  \/ value.py = "bool" /\ value.v = "False"

\* convert_primitive_fn of make_primitive_translator without overrides;
\* str(value) of a scalar is its text, escaping left aside.
convert_primitive_fn(schema_type, value) ==
  LET str == IF value = PyNone THEN "None"
             ELSE IF value.py \in {"list", "dict", "tuple"} THEN "str(" \o value.py \o ")"
             ELSE value.v
      name == schema_type.type_str[1]
  IN IF ~str_in(schema_type.type_str, PRIMITIVE_TYPES)
     THEN [raised |-> "IOPairError", literal |-> <<>>]
     ELSE [raised |-> "",
           literal |->
             IF name = "string"
             THEN <<IF value = PyNone THEN "\"\"" ELSE "\"" \o str \o "\"">>
             ELSE IF name = "character"
             THEN <<IF value = PyNone THEN "''" ELSE "'" \o str \o "'">>
             ELSE IF name = "boolean" THEN <<IF falsy(value) THEN "false" ELSE "true">>
             ELSE IF name \in {"float", "double"} /\ isinstance(value, "int")
             THEN <<float(value).v>>
             ELSE <<str>>]

\* What a for loop over the value goes through: the items of a list, the
\* keys of a dict, the characters of a text; other values raise TypeError.
iterable(value) == value.py \in {"list", "tuple", "dict", "str"}
iter(value) ==
  IF value.py = "dict" THEN [k \in 1..Len(value.items) |-> value.items[k].items[1]]
  ELSE IF value.py = "str" THEN (IF value.v = "" THEN <<>> ELSE <<value>>)
  ELSE value.items

\* convert_var_to_literal, convert_array_like_type with its convert_nested,
\* and convert_map.  target_type is "" for a call of convert_var_to_literal
\* and 'list' or 'set' for a call of convert_nested.
RECURSIVE convert_literal(_, _, _)
convert_literal(generic_type, value, target_type) ==
  LET recurse(t, v, target) == convert_literal(t, v, target)
      raise(e) == [raised |-> e, literal |-> <<>>]
      first_raised(calls) ==
        calls[CHOOSE k \in 1..Len(calls) :
                /\ calls[k].raised # ""
                /\ \A j \in 1..(k - 1) : calls[j].raised = ""].raised
      bracket(target) == IF target = "set" THEN <<"set([", "])">> ELSE <<"[", "]">>
      \* convert_nested
      nested == [k \in 1..Len(iter(value)) |->
                   recurse(generic_type.elements[1], iter(value)[k], target_type)]
      \* convert_array_like_type
      use_format_set == generic_type.type_str = <<"set">>
      own_target == IF use_format_set THEN "set" ELSE "list"
      unhashable == \/ ~iterable(value)
                    \/ \E k \in 1..Len(iter(value)) : iter(value)[k].py \in {"list", "dict"}
      \* list(set(nested_value)), in the order of the first occurrences
      first[k \in 0..Len(iter(value))] ==
        IF k = 0 THEN <<>>
        ELSE IF iter(value)[k] \in Range(first[k - 1]) THEN first[k - 1]
        ELSE Append(first[k - 1], iter(value)[k])
      nested_value == IF ~use_format_set THEN value
                      ELSE IF falsy(value) THEN Py("list", "", <<>>)
                      ELSE Py("list", "", first[Len(iter(value))])
      \* convert_map
      entries == [k \in 1..(2 * Len(value.items)) |->
                    recurse(IF k % 2 = 1 THEN generic_type.key_type[1]
                            ELSE generic_type.elements[1],
                            value.items[(k + 1) \div 2].items[2 - (k % 2)], "")]
  IN IF target_type # "" /\ generic_type.type_str = <<target_type>>
     THEN IF generic_type.elements = <<>> THEN raise("IOPairError")
          ELSE IF ~iterable(value) THEN raise("TypeError")
          ELSE IF \E k \in 1..Len(nested) : nested[k].raised # ""
          THEN raise(first_raised(nested))
          ELSE [raised |-> "",
                literal |-> <<bracket(target_type)[1]>>
                            \o str_join(",", [k \in 1..Len(nested) |-> nested[k].literal])
                            \o <<bracket(target_type)[2]>>]
     ELSE IF str_in(generic_type.type_str, PRIMITIVE_TYPES) \/ is_leaf(generic_type)
     THEN convert_primitive_fn(generic_type,
                               IF allows_null(generic_type.type_str) /\ falsy(value)
                               THEN PyNone ELSE value)
     ELSE IF generic_type.type_str \in {<<"list">>, <<"set">>}
     THEN IF use_format_set /\ ~falsy(value) /\ unhashable
          THEN raise("QuestionValidationError")
          ELSE IF falsy(nested_value)
          THEN [raised |-> "", literal |-> bracket(own_target)]
          ELSE recurse(generic_type, nested_value, own_target)
     ELSE IF generic_type.type_str = <<"map">>
     THEN IF falsy(value) THEN [raised |-> "", literal |-> <<"{", "}">>]
          ELSE IF generic_type.key_type = <<>> THEN raise("IOPairError")
          ELSE IF value.py # "dict" THEN raise("AttributeError")
          ELSE IF \E k \in 1..Len(entries) : entries[k].raised # ""
          THEN raise(first_raised(entries))
          ELSE [raised |-> "",
                literal |-> <<"{">>
                            \o str_join(",", [k \in 1..Len(value.items) |->
                                                entries[2 * k - 1].literal \o <<":">>
                                                  \o entries[2 * k].literal])
                            \o <<"}">>]
     ELSE raise("IOPairError")

convert_var_to_literal(generic_type, value) == convert_literal(generic_type, value, "")

\* ------------------------------------------ generate_code_for_questions
\* A question is [qid, params, return, test_list]: params a sequence of
\* [name, type], the types as written; a test case is [inputs, outputs],
\* inputs a sequence of [name, value] for the dict and outputs <<>> when
\* the key is absent.
\* io_pair['inputs'].get(var)
get(inputs, var) ==
  IF \E k \in 1..Len(inputs) : inputs[k].name = var
  THEN inputs[CHOOSE k \in 1..Len(inputs) : inputs[k].name = var].value
  ELSE PyNone

\* convert_schema_type of parse_language_schema, for a language whose
\* primitive_lang_map has every primitive type: "" or the error raised.
RECURSIVE convert_schema_type(_)
convert_schema_type(s_type) ==
  LET below == [k \in 1..Len(s_type.elements) |-> convert_schema_type(s_type.elements[k])]
  IN IF is_leaf(s_type)
     THEN (IF str_in(s_type.type_str, PRIMITIVE_TYPES) THEN "" ELSE "SchemaTypeError")
     ELSE IF \E k \in 1..Len(below) : below[k] # "" THEN "SchemaTypeError"
     ELSE IF s_type.type_str \in {<<"list">>, <<"set">>} THEN ""
     ELSE IF s_type.type_str = <<"map">> THEN convert_schema_type(s_type.key_type[1])
     ELSE "SchemaTypeError"

\* parse_schema_and_input_order: [raised, schema], the schema being the
\* parameter types in input order followed by the return type.
parse_schema_and_input_order(question) ==
  LET written == [k \in 1..Len(question.params) |-> question.params[k].type]
                   \o <<question.return>>
      parsed == [k \in 1..Len(written) |-> from_generic_type_string(written[k])]
      raising == {k \in 1..Len(parsed) : parsed[k].raised # ""}
      schema_types == [k \in 1..Len(parsed) |-> parsed[k].type]
  IN IF raising # {}
     THEN [raised |-> parsed[CHOOSE k \in raising : \A j \in raising : k <= j].raised,
           schema |-> <<>>]
     ELSE IF \E k \in 1..Len(schema_types) : convert_schema_type(schema_types[k]) # ""
     THEN [raised |-> "SchemaTypeError", schema |-> <<>>]
     ELSE [raised |-> "", schema |-> schema_types]

\* generate_test_case_literals: [raised, inputs, outputs]
generate_test_case_literals(io_pair, underlying_schema, question) ==
  LET n == Len(question.params)
      raise(e) == [raised |-> e, inputs |-> <<>>, outputs |-> <<>>]
      \* expected_literal = convert_with_exception_handling(...)
      expected(input_literals, expected_literal) ==
        IF expected_literal.raised # "" THEN raise(expected_literal.raised)
        ELSE [raised |-> "",
              inputs |-> [k \in 1..n |-> input_literals[k].literal],
              outputs |-> expected_literal.literal]
      \* for var in input_order: the first exception of the loop, a value
      \* being validated and then converted
      inputs_done(validated, input_literals) ==
        LET failed(k) == IF validated[k].raised # "" THEN validated[k].raised
                         ELSE input_literals[k].raised
            raising == {k \in 1..n : failed(k) # ""}
        IN IF raising # {} THEN raise(failed(CHOOSE k \in raising : \A j \in raising : k <= j))
           ELSE IF io_pair.outputs = <<>> THEN raise("KeyError")
           ELSE expected(input_literals,
                         convert_var_to_literal(underlying_schema[n + 1], io_pair.outputs[1]))
      convert_inputs(validated) ==
        inputs_done(validated,
                    [k \in 1..n |-> convert_var_to_literal(underlying_schema[k],
                                                           validated[k].value)])
  IN convert_inputs([k \in 1..n |->
                       validate_correct_type(underlying_schema[k],
                                             get(io_pair.inputs, question.params[k].name))])

\* _generate_question_code: the test cases of the question in turn.
generate_question_code(question, schema_types) ==
  LET first_raised(cases) ==
        LET raising == {k \in 1..Len(cases) : cases[k].raised # ""}
        IN IF raising # {}
           THEN [raised |-> cases[CHOOSE k \in raising : \A j \in raising : k <= j].raised,
                 test_cases |-> <<>>]
           ELSE [raised |-> "", test_cases |-> cases]
  IN first_raised([k \in 1..Len(question.test_list) |->
                     generate_test_case_literals(question.test_list[k], schema_types, question)])

ALLOWED_ERRORS ==
  {"QuestionParsingError", "QuestionValidationError", "IOPairError", "SchemaTypeError"}

MaxQuestions == 2

\* The questions at hand: one parameter x, one test case, and at most one
\* of the parameter type, the inputs and the expected output away from the
\* well-formed question (x: integer) -> integer with {x: 1} -> 1.
Questions ==
  LET one == Py("int", "1", <<>>)
      text == Py("str", "a", <<>>)
      ParamTypes == {<<"integer">>, <<"string">>, <<"list", "<", "integer">>, <<">", "<">>,
                     <<"tuple", "<", "integer", ">">>}
      Inputs == {<<[name |-> "x", value |-> one]>>, <<[name |-> "x", value |-> text]>>, <<>>,
                 <<[name |-> "x", value |-> one], [name |-> "z", value |-> one]>>}
      Returns == {<<<<"integer">>, <<one>>>>, <<<<"integer">>, <<text>>>>,
                  <<<<"integer">>, <<>>>>, <<<<"integer">>, <<PyNone>>>>,
                  <<<<"list", "<", "integer", ">">>, <<Py("list", "", <<one>>)>>>>,
                  <<<<"list", "<", "integer", ">">>, <<one>>>>}
      away(t, i, r) == (IF t = <<"integer">> THEN 0 ELSE 1)
                         + (IF i = <<[name |-> "x", value |-> one]>> THEN 0 ELSE 1)
                         + (IF r = <<<<"integer">>, <<one>>>> THEN 0 ELSE 1)
  IN {[params |-> <<[name |-> "x", type |-> t]>>, return |-> r[1],
       test_list |-> <<[inputs |-> i, outputs |-> r[2]]>>] :
        <<t, i, r>> \in {c \in ParamTypes \X Inputs \X Returns :
                           \/ away(c[1], c[2], c[3]) <= 1
                           \/ c[1] = <<"string">> /\ c[3] = <<<<"integer">>, <<one>>>>}}

InitGenerate ==
  /\ phase = "generate"
  /\ \E questions \in UNION {[1..n -> Questions] : n \in 0..MaxQuestions} :
       gen = [pc |-> "loop", questions |-> questions, at |-> 1,
              out |-> <<>>, failures |-> <<>>, raised |-> ""]
  /\ kill_unused
  /\ writer_unused
  /\ rename_unused
  /\ schema = <<>>
  /\ returned = <<>>
  /\ setup_unused
  /\ question_unused
  /\ prediction_path = <<>>
  /\ ev = ev_idle
  /\ journal = <<>>
  /\ resume = resume_idle
  /\ config = [num_workers |-> 1, update_freq |-> DefaultUpdateFreq]
  /\ idle_but_journal

generate_frame ==
  UNCHANGED <<classVars, execVars, batchVars, resumeVars, evalVars, setupVars,
              questionVars, schema, returned, killVars, writerVars, renamed, phase>>

\* One turn of `for question in questions`: the question is appended to
\* out or, on one of ALLOWED_ERRORS, to failures; any other exception
\* leaves generate_code_for_questions.
generate_question ==
  /\ phase = "generate"
  /\ gen.pc = "loop"
  /\ gen.at <= Len(gen.questions)
  /\ LET question == gen.questions[gen.at]
         loop_turn(error, test_cases) ==
           IF error = ""
           THEN [gen EXCEPT !.at = @ + 1,
                            !.out = Append(@, [at |-> gen.at, test_cases |-> test_cases])]
           ELSE IF error \in ALLOWED_ERRORS
           THEN [gen EXCEPT !.at = @ + 1,
                            !.failures = Append(@, [at |-> gen.at, e |-> error])]
           ELSE [gen EXCEPT !.pc = "raised", !.raised = error]
         generated(code) == loop_turn(code.raised, code.test_cases)
         parsed_schema(parsed) ==
           IF parsed.raised # "" THEN loop_turn(parsed.raised, <<>>)
           ELSE generated(generate_question_code(question, parsed.schema))
     IN gen' = parsed_schema(parse_schema_and_input_order(question))
  /\ generate_frame

\* return out, failures
generate_return ==
  /\ phase = "generate"
  /\ gen.pc = "loop"
  /\ gen.at > Len(gen.questions)
  /\ gen' = [gen EXCEPT !.pc = "returned"]
  /\ generate_frame

NextGenerate ==
  \/ generate_question
  \/ generate_return

SpecGenerate == InitGenerate /\ [][NextGenerate]_vars

\* ------------------------------------------- Question.change_var_names
\* A dict is a sequence of [name, value] in insertion order; name_map is
\* a sequence of [old, new] in the order of name_map.items().
MaxParams == 2

ParamNames == {"x"} \cup {"arg" \o ToString(i) : i \in 0..(MaxParams - 1)}

has_key(dict, name) == \E k \in 1..Len(dict) : dict[k].name = name

\* dict.pop(name): the dict without the key
pop(dict, name) == SelectSeq(dict, LAMBDA item : item.name # name)

\* dict[name] = value: an existing key keeps its place
setitem(dict, name, value) ==
  IF has_key(dict, name)
  THEN [k \in 1..Len(dict) |-> IF dict[k].name = name THEN [dict[k] EXCEPT !.value = value]
                                                      ELSE dict[k]]
  ELSE Append(dict, [name |-> name, value |-> value])

\* _update_test: the entries of name_map one after the other, each a pop
\* and an assignment; a missing old name raises (AttributeError, from
\* self.qiq in the message of the QuestionValidationError).
update_test(test_inputs, name_map) ==
  LET after[k \in 0..Len(name_map)] ==
        IF k = 0 THEN [raised |-> "", inputs |-> test_inputs]
        ELSE IF after[k - 1].raised # "" THEN after[k - 1]
        ELSE IF ~has_key(after[k - 1].inputs, name_map[k].old)
        THEN [after[k - 1] EXCEPT !.raised = "AttributeError"]
        ELSE [after[k - 1] EXCEPT
                !.inputs = setitem(pop(@, name_map[k].old), name_map[k].new,
                                   get(after[k - 1].inputs, name_map[k].old))]
  IN after[Len(name_map)]

\* The questions and maps at hand: up to MaxParams parameters of different
\* names, one test case holding the value k for the k-th parameter, and a
\* map that takes different old names to different new names, none of
\* them the name of a parameter that is not renamed.
InitRename ==
  /\ phase = "rename"
  /\ \E params \in UNION {[1..n -> ParamNames] : n \in 1..MaxParams} :
       \E name_map \in UNION {[1..n -> [old : ParamNames, new : ParamNames]] :
                                n \in 0..MaxParams} :
         /\ \A j, k \in 1..Len(params) : params[j] = params[k] => j = k
         /\ \A j, k \in 1..Len(name_map) :
              (name_map[j].old = name_map[k].old \/ name_map[j].new = name_map[k].new) => j = k
         /\ \A k \in 1..Len(name_map) :
              name_map[k].new \notin
                (Range(params) \ {name_map[j].old : j \in 1..Len(name_map)})
         /\ renamed = <<[pc |-> "call", params |-> params, name_map |-> name_map,
                         inputs |-> [k \in 1..Len(params) |->
                                       [name |-> params[k], value |-> Py("int", ToString(k), <<>>)]],
                         raised |-> ""]>>
  /\ kill_unused
  /\ gen_unused
  /\ writer_unused
  /\ schema = <<>>
  /\ returned = <<>>
  /\ setup_unused
  /\ question_unused
  /\ prediction_path = <<>>
  /\ ev = ev_idle
  /\ journal = <<>>
  /\ resume = resume_idle
  /\ config = [num_workers |-> 1, update_freq |-> DefaultUpdateFreq]
  /\ idle_but_journal

\* change_var_names(name_map): the test case, then the schema's params,
\* then the check of found.
change_var_names ==
  /\ phase = "rename"
  /\ renamed[1].pc = "call"
  /\ LET self == renamed[1]
         updated == update_test(self.inputs, self.name_map)
         olds == {self.name_map[k].old : k \in 1..Len(self.name_map)}
         new_of(name) == self.name_map[CHOOSE k \in 1..Len(self.name_map) :
                                         self.name_map[k].old = name].new
         found == Range(self.params) \cap olds
     IN renamed' =
          IF updated.raised # ""
          THEN <<[self EXCEPT !.pc = "raised", !.raised = updated.raised,
                              !.inputs = updated.inputs]>>
          ELSE <<[self EXCEPT
                    !.inputs = updated.inputs,
                    !.params = [k \in 1..Len(self.params) |->
                                  IF self.params[k] \in olds THEN new_of(self.params[k])
                                  ELSE self.params[k]],
                    !.pc = IF found # olds THEN "raised" ELSE "returned",
                    !.raised = IF found # olds THEN "QuestionValidationError" ELSE ""]>>
  /\ phase' = "renamed"
  /\ UNCHANGED <<classVars, execVars, batchVars, resumeVars, evalVars, setupVars,
                 questionVars, schema, returned, killVars, gen, writerVars>>

NextRename == change_var_names

SpecRename == InitRename /\ [][NextRename]_vars

\* -------------------------------------------- execution_results_writer
\* The queue is [items, put]: what is in it, and everything put so far.
\* An item is [pill, is_execution_result, result]; the poison pill is the
\* item None.  A file is [lines, closed].
MaxPuts == 4

PoisonPill == [pill |-> TRUE, is_execution_result |-> FALSE, result |-> 0]

\* Every record to the execution-results file.
route_mut(is_execution_result) == "execution_fd"

\* is_execution_result chooses the file.
route(is_execution_result) == IF is_execution_result THEN "execution_fd" ELSE "runtime_fd"

InitWriter ==
  /\ phase = "writer"
  /\ queue = [items |-> <<>>, put |-> <<>>]
  /\ writer = [pc |-> "running", written_records |-> 0, task_done |-> 0,
               execution_fd |-> [lines |-> <<>>, closed |-> FALSE],
               runtime_fd |-> [lines |-> <<>>, closed |-> FALSE]]
  /\ kill_unused
  /\ gen_unused
  /\ rename_unused
  /\ schema = <<>>
  /\ returned = <<>>
  /\ setup_unused
  /\ question_unused
  /\ prediction_path = <<>>
  /\ ev = ev_idle
  /\ journal = <<>>
  /\ resume = resume_idle
  /\ config = [num_workers |-> 1, update_freq |-> DefaultUpdateFreq]
  /\ idle_but_journal

writer_frame ==
  UNCHANGED <<classVars, execVars, batchVars, resumeVars, evalVars, setupVars,
              questionVars, schema, returned, killVars, gen, renamed, phase>>

\* result_queue.put(...) by a producer: a result, a runtime record or the
\* pill, at any time, the result numbered by its place among the puts.
put ==
  /\ phase = "writer"
  /\ Len(queue.put) < MaxPuts
  /\ \E pill \in BOOLEAN, is_execution_result \in BOOLEAN :
       LET item == IF pill THEN PoisonPill
                   ELSE [pill |-> FALSE, is_execution_result |-> is_execution_result,
                         result |-> Len(queue.put) + 1]
       IN /\ pill => ~is_execution_result
          /\ queue' = [items |-> Append(queue.items, item), put |-> Append(queue.put, item)]
  /\ UNCHANGED writer
  /\ writer_frame

\* One turn of `while True` with an item in the queue (an empty queue is
\* polled again): get, then close both files and return on the pill, or
\* write the line to its file; task_done either way.
execution_results_writer ==
  /\ phase = "writer"
  /\ writer.pc = "running"
  /\ queue.items # <<>>
  /\ LET execution_results == Head(queue.items)
         fd == route(execution_results.is_execution_result)
     IN writer' =
          IF execution_results.pill
          THEN [writer EXCEPT !.runtime_fd.closed = TRUE, !.execution_fd.closed = TRUE,
                              !.task_done = @ + 1, !.pc = "returned"]
          ELSE [writer EXCEPT ![fd].lines = Append(@, execution_results.result),
                              !.task_done = @ + 1, !.written_records = @ + 1]
  /\ queue' = [queue EXCEPT !.items = Tail(@)]
  /\ writer_frame

NextWriter ==
  \/ put
  \/ execution_results_writer

SpecWriter == InitWriter /\ [][NextWriter]_vars

\* The writer is a running process: a turn of its loop that can be taken
\* is taken.
SpecWriterFair == SpecWriter /\ WF_vars(execution_results_writer)

\* ---------------------------------------------------- a QuestionResult
\* Most predictions of one question.
MaxResults == 3

\* The PredictionResults of a question with the one test case "0".
PredictionResults ==
  {from_execution_result(
     ExecutionResult(OnePrediction, <<OneCommand>>, so, "", rc, 1, 0, FALSE, to,
                     <<1>>, <<10>>), {"0"}) :
     so \in {<<>>, <<[idx |-> "0", tok |-> "PASSED"]>>,
             <<[idx |-> "0", tok |-> "FAILED"]>>,
             <<[idx |-> "0", tok |-> "KeyError"]>>},
     rc \in {0, 1}, to \in BOOLEAN}

\* pred_result.test_case_results.get(key, 'MISSING')
get_or_missing(test_case_results, key) ==
  IF key \in DOMAIN test_case_results THEN test_case_results[key] ELSE "MISSING"

\* QuestionResult.update_with_result: lines 329-345.
update_with_result(qr, pred_result) ==
  [qr EXCEPT
     !.num_predictions = @ + 1,
     !.results = [o \in PredictionOutcome |-> Append(@[o], pred_result.outcome = o)],
     !.num_tc_passed = Append(@, pred_result.num_tc_passed),
     !.specific_test_results =
        [t \in DOMAIN @ |->
           @[t] (+) SetToBag({get_or_missing(pred_result.test_case_results,
                                             ToString(t))})]]

\* QuestionResult.count_result(name): sum(self.results[name]).
RECURSIVE count_result(_)
count_result(list) ==
  IF list = <<>> THEN 0
  ELSE (IF Head(list) THEN 1 ELSE 0) + count_result(Tail(list))

\* QuestionResult.padded(name, max_len, value), on the list of that name.
padded_mut(list, num_predictions, max_len, value) ==
  list \o [k \in 1..max_len |-> value]

padded(list, num_predictions, max_len, value) ==
  list \o [k \in 1..(max_len - num_predictions) |-> value]

InitQuestion ==
  /\ phase = "question"
  /\ \E num_test_cases \in {1, 2} : question_result = QuestionResult(num_test_cases)
  /\ pass_val_arrays = <<>>
  /\ setup_unused
  /\ schema_unused
  /\ prediction_path = <<>>
  /\ ev = ev_idle
  /\ journal = <<>>
  /\ resume = resume_idle
  /\ config = [num_workers |-> 1, update_freq |-> DefaultUpdateFreq]
  /\ idle_but_journal

\* One more prediction result of the question is taken in.
question_update ==
  /\ phase = "question"
  /\ question_result.num_predictions < MaxResults
  /\ \E pred_result \in PredictionResults :
       question_result' = update_with_result(question_result, pred_result)
  /\ UNCHANGED <<phase, classVars, execVars, batchVars, resumeVars, evalVars,
                 setupVars, pass_val_arrays, schemaVars>>

\* calculate_pass_metrics, lines 234-244, for this question.
calculate_pass_metrics ==
  /\ phase = "question"
  /\ \E num_preds_per_question \in 1..(MaxResults + 1) :
       LET pass_arr ==
             IF question_result.num_predictions < num_preds_per_question
             THEN padded(question_result.results[PASSED],
                         question_result.num_predictions,
                         num_preds_per_question, FALSE)
             ELSE question_result.results[PASSED]
       IN pass_val_arrays' =
            <<[num_preds_per_question |-> num_preds_per_question,
               pass_arr |-> pass_arr]>>
  /\ phase' = "metrics"
  /\ UNCHANGED <<classVars, execVars, batchVars, resumeVars, evalVars,
                 setupVars, question_result, schemaVars>>

NextQuestion ==
  \/ question_update
  \/ calculate_pass_metrics

SpecQuestion == InitQuestion /\ [][NextQuestion]_vars

\* C15: after any sequence of update_with_result calls every outcome list of
\* a QuestionResult has length num_predictions and exactly one of the five
\* outcomes is True at each index, so the counts sum to num_predictions; a
\* question with fewer predictions than the configured number has its PASSED
\* list padded with False to exactly that number, the passes unchanged.
RECURSIVE C15_Sum(_)
C15_Sum(outcomes) ==
  IF outcomes = {} THEN 0
  ELSE LET o == CHOOSE x \in outcomes : TRUE
       IN count_result(question_result.results[o]) + C15_Sum(outcomes \ {o})
C15_OneOutcomeEachAndPadding ==
  phase \in {"question", "metrics"} =>
    /\ \A o \in PredictionOutcome :
         Len(question_result.results[o]) = question_result.num_predictions
    /\ \A k \in 1..question_result.num_predictions :
         Cardinality({o \in PredictionOutcome : question_result.results[o][k]}) = 1
    /\ C15_Sum(PredictionOutcome) = question_result.num_predictions
    /\ \A k \in 1..Len(pass_val_arrays) :
         LET n == pass_val_arrays[k].num_preds_per_question
             pass_arr == pass_val_arrays[k].pass_arr
             passed == question_result.results[PASSED]
         IN question_result.num_predictions < n =>
              /\ Len(pass_arr) = n
              /\ SubSeq(pass_arr, 1, Len(passed)) = passed
              /\ \A j \in (Len(passed) + 1)..n : pass_arr[j] = FALSE
              /\ count_result(pass_arr) = count_result(passed)

C15_Witness ==
  /\ phase = "metrics"
  /\ question_result.num_predictions = 2
  /\ pass_val_arrays[1].num_preds_per_question = 3
  /\ count_result(question_result.results[PASSED]) = 1
  /\ count_result(question_result.results[TIMED_OUT]) = 1

\* C14: when execute_predictions returns normally the execution journal has
\* gained exactly one line per executed prediction, whatever update_freq and
\* the number of workers, and its i-th new line is the serialization of the
\* i-th element of the returned list of results.
C14_OneLinePerResult ==
  (phase = "done" /\ ep.returned) =>
     /\ files.buffer = <<>>
     /\ Len(ep.results) = Len(ep.executor_args)
     /\ files.disk = [k \in 1..Len(ep.results) |-> to_dict(ep.results[k])]

\* Two workers, a write at every completion, and the second prediction
\* completed first.
C14_Witness ==
  /\ phase = "done"
  /\ ep.returned
  /\ config.update_freq = 1
  /\ config.num_workers = 2
  /\ Len(ep.results) = 2
  /\ ep.results[1].prediction = predictions[2]
  /\ Len(files.disk) = 2

\* C13: test_case_results has exactly the declared test-case ids as keys; a
\* declared id maps to the token of its TEST-<id>...<token> line of stdout
\* (the last one, should there be several), or to MISSING when stdout has no
\* such line; lines of undeclared ids are ignored; num_tc is the number of
\* declared ids and num_tc_passed the number of them whose token is PASSED.
C13_Token(stdout, tid) ==
  LET at == {k \in 1..Len(stdout) : stdout[k].idx = tid /\ stdout[k].tok # ""}
  IN IF at = {} THEN "MISSING"
     ELSE stdout[CHOOSE k \in at : \A j \in at : j <= k].tok
C13_MapOfDeclaredIds ==
  phase = "assembled" =>
    LET results == prediction_result.test_case_results
    IN /\ DOMAIN results = question_info
       /\ \A t \in question_info : results[t] = C13_Token(execution_result.stdout, t)
       /\ prediction_result.num_tc = Cardinality(question_info)
       /\ prediction_result.num_tc_passed =
            Cardinality({t \in question_info :
                           C13_Token(execution_result.stdout, t) = "PASSED"})

\* C12: the driver file is the question's test code with
\* PLACEHOLDER_CODE_BODY replaced by the candidate's code and
\* PLACEHOLDER_FN_NAME / PLACEHOLDER_CLS_NAME by the entry function / class
\* name, the candidate's text standing in it verbatim whatever it contains.
C12_Name(which) ==
  or_else(forced_entry(setup.question, setup.pred_dict,
                       setup.force_question_entry)[which],
          setup.question[which])
C12_Filled ==
  [k \in 1..Len(setup.question.test_code) |->
     LET t == setup.question.test_code[k]
     IN IF t = PLACEHOLDER_CODE_BODY THEN setup.pred_dict.code
        ELSE IF t = PLACEHOLDER_FN_NAME THEN C12_Name("entry_fn_name")
        ELSE IF t = PLACEHOLDER_CLS_NAME THEN C12_Name("entry_cls_name")
        ELSE <<t>>]
RECURSIVE C12_Join(_)
C12_Join(parts) == IF parts = <<>> THEN <<>> ELSE Head(parts) \o C12_Join(Tail(parts))
C12_DriverIsFilledTemplate ==
  phase = "written" => code_path = C12_Join(C12_Filled)

\* C11: the key under which a prediction is journalled and skipped on
\* restart is its own (qid, id) from the predictions file, not its position:
\* whatever the order of the file's lines in the second run, the predictions
\* the second run skips are the predictions the first run journalled.
C11_Lines(keyed, keys) == {keyed[k].pred_dict.code : k \in {j \in 1..Len(keyed) : keyed[j].key \in keys}}
C11_Journalled == C11_Lines(ev.first, keys_of(loads[1].parsed))
C11_Skipped ==
  C11_Lines(ev.grouped,
            resume.given \ {resume.raw_predictions[k].key :
                              k \in 1..Len(resume.raw_predictions)})
C11_SkipsByOwnKey ==
  (ev.run = 2 /\ phase # "evaluate" /\ resume.pc \notin {"idle", "called"}) =>
     C11_Skipped = C11_Journalled


\* ------------------------------------------------------------------ C16
\* The nodes of a type: the type, its key type and its elements, and theirs.
RECURSIVE C16_Nodes(_)
C16_Nodes(t) ==
  {t} \cup UNION {C16_Nodes(t.elements[k]) : k \in 1..Len(t.elements)}
      \cup (IF t.key_type = <<>> THEN {} ELSE C16_Nodes(t.key_type[1]))

\* A TypeExpr: every node is a leaf with a leaf's name, a list or a set of
\* one element type, a map of a key type and one value type, or a tuple.
C16_TypeExpr(t) ==
  \A n \in C16_Nodes(t) :
    \/ is_leaf(n) /\ n.key_type = <<>>
         /\ Len(n.type_str) = 1 /\ n.type_str[1] \in LeafNames
    \/ n.type_str \in {<<"list">>, <<"set">>} /\ Len(n.elements) = 1 /\ n.key_type = <<>>
    \/ n.type_str = <<"map">> /\ Len(n.elements) = 1 /\ n.key_type # <<>>
    \/ n.type_str = <<"tuple">> /\ Len(n.elements) >= 1 /\ n.key_type = <<>>

\* C16: a TypeExpr t returned by from_generic_type_string is given back by
\* from_generic_type_string(t.to_generic()): no exception, and the same
\* type names, elements and key types at every node.
C16_RoundTrip ==
  (phase = "parsed again" /\ C16_TypeExpr(returned[1].type))
    => (returned[3].raised = "" /\ returned[3].type = returned[1].type)

\* ------------------------------------------------------------------ C17
\* C17: from_generic_type_string never returns a type with a tuple node all
\* of whose element types are equal.
C17_TuplesCollapse ==
  (phase = "parsed" /\ returned[1].raised = "")
    => \A n \in C16_Nodes(returned[1].type) :
         n.type_str = <<"tuple">> => Cardinality(Range(n.elements)) >= 2


\* ------------------------------------------------------------------ C18
\* The widening table: <<narrower, wider>>.
C18_Wider ==
  {<<"integer", "long">>, <<"integer", "float">>, <<"integer", "double">>,
   <<"float", "double">>, <<"long", "double">>, <<"character", "string">>}

C18_Expected(narrow, wide) ==
  IF <<narrow.type_str[1], wide.type_str[1]>> \in C18_Wider THEN <<wide>>
  ELSE IF <<wide.type_str[1], narrow.type_str[1]>> \in C18_Wider THEN <<narrow>>
  ELSE <<>>

C19_Commutative ==
  phase = "reconciled" => returned[1] = returned[2]

C19_Witness ==
  /\ phase = "reconciled"
  /\ ~is_leaf(schema[1]) /\ ~is_leaf(schema[1].elements[1])
  /\ schema[1] # schema[2]
  /\ returned[1].value # <<>>
  /\ returned[2] = returned[1]

\* ------------------------------------------------------------------ C20
\* Identical in structure, a null leaf being equal to any leaf, and when
\* null_any to any type.
RECURSIVE C20_Identical(_, _, _)
C20_Identical(a, b, null_any) ==
  IF is_leaf(a) \/ is_leaf(b)
  THEN \/ is_leaf(a) /\ is_leaf(b)
            /\ (a.type_str = b.type_str \/ <<"null">> \in {a.type_str, b.type_str})
       \/ null_any /\ is_leaf(a) /\ a.type_str = <<"null">>
       \/ null_any /\ is_leaf(b) /\ b.type_str = <<"null">>
  ELSE /\ a.type_str = b.type_str
       /\ Len(a.elements) = Len(b.elements)
       /\ Len(a.key_type) = Len(b.key_type)
       /\ \A k \in 1..Len(a.key_type) : C20_Identical(a.key_type[k], b.key_type[k], null_any)
       /\ \A k \in 1..Len(a.elements) : C20_Identical(a.elements[k], b.elements[k], null_any)

\* C20 as stated: is_generic_equal(a, b) is true exactly when a and b are
\* identical in structure, a null leaf being equal to any leaf; it is
\* symmetric and true of (t, t).
C20_EqualUpToNullLeaves ==
  phase = "compared"
    => /\ returned[1] = C20_Identical(schema[1], schema[2], FALSE)
       /\ returned[2] = returned[1]
       /\ (schema[1] = schema[2] => returned[1])

\* C20 amended: is_generic_equal(a, b) is true exactly when a and b are
\* identical in structure, a null leaf being equal to any type in its place,
\* leaf or container; it is symmetric and true of (t, t).
C20_EqualUpToNull ==
  phase = "compared"
    => /\ returned[1] = C20_Identical(schema[1], schema[2], TRUE)
       /\ returned[2] = returned[1]
       /\ (schema[1] = schema[2] => returned[1])

C20_Witness ==
  /\ phase = "compared"
  /\ schema[1] = Node("list", <<Leaf("null")>>, <<>>)
  /\ schema[2] = Node("list", <<Node("list", <<Leaf("integer")>>, <<>>)>>, <<>>)
  /\ returned = <<TRUE, TRUE>>


\* ------------------------------------------------------------------ C28
\* The angle brackets of a text balance: no ">" before its "<", none left open.
RECURSIVE C28_Balanced(_, _)
C28_Balanced(text, num_open) ==
  IF text = <<>> THEN num_open = 0
  ELSE IF Head(text) = "<" THEN C28_Balanced(Tail(text), num_open + 1)
  ELSE IF Head(text) = ">" THEN num_open > 0 /\ C28_Balanced(Tail(text), num_open - 1)
  ELSE C28_Balanced(Tail(text), num_open)

\* C28: from_generic_type_string returns a type or raises SchemaTypeError
\* and nothing else, and it raises SchemaTypeError for every string whose
\* angle brackets do not balance or that holds both "[]" and "<".
C28_ParseIsTotal ==
  phase = "parsed"
    => /\ returned[1].raised \in {"", "SchemaTypeError"}
       /\ (~C28_Balanced(schema[1], 0) => returned[1].raised = "SchemaTypeError")
       /\ (str_count(schema[1], "[]") > 0 /\ str_count(schema[1], "<") > 0
             => returned[1].raised = "SchemaTypeError")

\* ------------------------------------------------------------------ C26
\* Point-wise widening of two types of one shape: <<>> when the shapes
\* diverge or a pair of different leaves is not in the table.
RECURSIVE C26_PointWise(_, _)
C26_PointWise(a, b) ==
  IF is_leaf(a) \/ is_leaf(b)
  THEN IF is_leaf(a) /\ is_leaf(b)
       THEN IF a = b THEN <<a>> ELSE C18_Expected(a, b)
       ELSE <<>>
  ELSE IF a.type_str # b.type_str \/ Len(a.elements) # Len(b.elements)
          \/ a.key_type # b.key_type
  THEN <<>>
  ELSE LET each == [k \in 1..Len(a.elements) |-> C26_PointWise(a.elements[k], b.elements[k])]
       IN IF \E k \in 1..Len(each) : each[k] = <<>> THEN <<>>
          ELSE <<[a EXCEPT !.elements = [k \in 1..Len(each) |-> each[k][1]]]>>

\* C26: for two containers reconcile_type returns the container of the same
\* shape whose leaves are the aligned leaves widened by the table, equal
\* leaves staying as they are, and None only when the shapes diverge or a
\* pair of different leaves is not in the table.
C26_ContainersPointWise ==
  (phase = "reconciled" /\ ~is_leaf(schema[1]) /\ ~is_leaf(schema[2]))
    => returned[1] = [raised |-> "", value |-> C26_PointWise(schema[1], schema[2])]


\* ------------------------------------------------------------------ C25
\* C25: once safe_execute has returned a timed-out result, no process the
\* command started, the child or any of its descendants, is alive.
C25_TreeKilled ==
  (sexec.pc = "returned" /\ sexec.timed_out)
    => \A p \in 1..Len(procs) : ~procs[p].alive


\* ------------------------------------------------------------------ C21
\* The nulls of a value are where the declared type takes them, and each
\* is the empty value of that type in what was returned.
RECURSIVE C21_NullsCoerced(_, _, _)
C21_NullsCoerced(t, given, out) ==
  IF given = PyNone
  THEN /\ str_in(t.type_str, {"string", "character", "list", "set", "map", "tuple"})
       /\ out = Py(GENERIC_TO_PYTHON_TYPE[t.type_str[1]], "", <<>>)
  ELSE IF t.type_str \in {<<"list">>, <<"set">>}
  THEN /\ Len(out.items) = Len(given.items)
       /\ \A k \in 1..Len(given.items) :
            C21_NullsCoerced(t.elements[1], given.items[k], out.items[k])
  ELSE IF t.type_str = <<"map">>
  THEN /\ Len(out.items) = Len(given.items)
       /\ \A k \in 1..Len(given.items) :
            C21_NullsCoerced(t.elements[1], given.items[k].items[2], out.items[k].items[2])
  ELSE TRUE

\* A null of the value stands where the declared type is one of the bare
\* primitives, the value above it being of the declared shape.
RECURSIVE C21_NullAtBare(_, _)
C21_NullAtBare(t, given) ==
  IF given = PyNone
  THEN str_in(t.type_str, {"boolean", "integer", "long", "float", "double"})
  ELSE IF t.type_str \in {<<"list">>, <<"set">>} /\ given.py = "list"
  THEN \E k \in 1..Len(given.items) : C21_NullAtBare(t.elements[1], given.items[k])
  ELSE IF t.type_str = <<"map">> /\ given.py = "dict"
  THEN \E k \in 1..Len(given.items) : C21_NullAtBare(t.elements[1], given.items[k].items[2])
  ELSE FALSE

\* C21: validate_correct_type takes a null only where the declared type is
\* string, character or a container, and returns that type's empty value
\* for it; a null at boolean, integer, long, float or double raises
\* SchemaTypeError; both at every depth of the value.
C21_NullOnlyWhereAllowed ==
  phase = "validated"
    => /\ (returned[1].raised = ""
             => C21_NullsCoerced(schema[1], schema[2], returned[1].value))
       /\ (C21_NullAtBare(schema[1], schema[2])
             => returned[1].raised = "SchemaTypeError")
       /\ (schema[2] = PyNone /\ ~C21_NullAtBare(schema[1], schema[2])
             /\ schema[1].type_str # <<"null">>
             => returned[1].raised = "")

C21_Witness ==
  /\ phase = "validated"
  /\ schema[1] = Node("list", <<Node("list", <<Leaf("string")>>, <<>>)>>, <<>>)
  /\ schema[2] = Py("list", "", <<Py("list", "", <<PyNone, Py("str", "a", <<>>)>>)>>)
  /\ returned[1] = [raised |-> "",
                    value |-> Py("list", "",
                                 <<Py("list", "", <<Py("str", "", <<>>), Py("str", "a", <<>>)>>)>>)]

\* ------------------------------------------------------------------ C22
\* C22 as stated: the value validate_correct_type returns for a set<T> holds
\* no two equal elements.
C22_SetsDeduplicated ==
  (phase = "validated" /\ schema[1].type_str = <<"set">> /\ returned[1].raised = "")
    => Cardinality(Range(returned[1].value.items)) = Len(returned[1].value.items)

\* C22 amended: the value validate_correct_type returns for a set<T> is a
\* list with one element for each element given, in the order given, each
\* the given element coerced to T; equal elements are kept.
C22_SetsKeptAsLists ==
  (phase = "validated" /\ schema[1].type_str = <<"set">> /\ returned[1].raised = "")
    => /\ returned[1].value.py = "list"
       /\ Len(returned[1].value.items) = Len(schema[2].items)
       /\ \A k \in 1..Len(schema[2].items) :
            returned[1].value.items[k] =
              IF schema[2].items[k] = PyNone THEN Py("str", "", <<>>) ELSE schema[2].items[k]

C22_Witness ==
  /\ phase = "validated"
  /\ schema[1] = Node("set", <<Leaf("integer")>>, <<>>)
  /\ schema[2] = Py("list", "", <<Py("int", "1", <<>>), Py("int", "1", <<>>)>>)
  /\ returned[1] = [raised |-> "", value |-> schema[2]]


\* C23: every test case rendered into a driver has an inputs map whose key
\* set is exactly the set of parameter names of its question: a question
\* with a test case that misses a parameter or carries an extra one is
\* failed, never appended to out.
C23_ExactParameters ==
  \A k \in 1..Len(gen.out) :
    LET question == gen.questions[gen.out[k].at]
    IN \A c \in 1..Len(question.test_list) :
         {question.test_list[c].inputs[j].name : j \in 1..Len(question.test_list[c].inputs)}
           = {question.params[j].name : j \in 1..Len(question.params)}

\* C24: generate_code_for_questions never aborts: no exception leaves it,
\* and when it returns every input question is in exactly one of out and
\* failures.
C24_NeverAborts ==
  /\ gen.pc # "raised"
  /\ gen.pc = "returned" =>
       \A q \in 1..Len(gen.questions) :
         Cardinality({k \in 1..Len(gen.out) : gen.out[k].at = q})
           + Cardinality({k \in 1..Len(gen.failures) : gen.failures[k].at = q}) = 1

\* C27: a value that does not validate against its declared type never
\* reaches literal translation: in every generated question each input
\* validates against its parameter type and the expected output against
\* the return type.
C27_OnlyValidatedValues ==
  \A k \in 1..Len(gen.out) :
    LET question == gen.questions[gen.out[k].at]
        schema_types == parse_schema_and_input_order(question).schema
        n == Len(question.params)
    IN \A c \in 1..Len(question.test_list) :
         /\ \A j \in 1..n :
              validate_correct_type(schema_types[j],
                                    get(question.test_list[c].inputs,
                                        question.params[j].name)).raised = ""
         /\ validate_correct_type(schema_types[n + 1],
                                  question.test_list[c].outputs[1]).raised = ""


\* C30: after change_var_names(name_map) returns, the test case holds
\* under name_map[old] the value it held under old, for every old of the
\* map, the values of the other parameters are as before, and the k-th
\* parameter of the schema carries the new name of the k-th parameter.
\* The test case held the value k under the k-th parameter.
C30_RenamePreservesValues ==
  (phase = "renamed" /\ renamed[1].pc = "returned") =>
    \A k \in 1..Len(renamed[1].params) :
      /\ has_key(renamed[1].inputs, renamed[1].params[k])
      /\ get(renamed[1].inputs, renamed[1].params[k]) = Py("int", ToString(k), <<>>)


\* C29: the items taken from the queue so far.
C29_Dequeued == SubSeq(queue.put, 1, Len(queue.put) - Len(queue.items))

\* C29: the results among the given items that go to one file, in order.
C29_ResultsFor(taken, is_execution_result) ==
  LET chosen == SelectSeq(taken, LAMBDA item : ~item.pill /\ item.is_execution_result = is_execution_result)
  IN [k \in 1..Len(chosen) |-> chosen[k].result]

\* C29, safety: each file holds exactly the items of its kind dequeued
\* before the pill, once each and in queue order; task_done has been
\* called once per dequeued item, the pill included; the writer has
\* returned exactly when the pill has been dequeued, and then both files
\* are closed, and before that both are open.
C29_WriterSafety ==
  LET taken == C29_Dequeued
      pills == {k \in 1..Len(taken) : taken[k].pill}
  IN /\ writer.execution_fd.lines = C29_ResultsFor(taken, TRUE)
     /\ writer.runtime_fd.lines = C29_ResultsFor(taken, FALSE)
     /\ writer.task_done = Len(taken)
     /\ writer.pc = "returned" <=> pills # {}
     /\ pills \subseteq {Len(taken)}
     /\ writer.execution_fd.closed = (writer.pc = "returned")
     /\ writer.runtime_fd.closed = (writer.pc = "returned")

\* C29: execution_results_writer writes every item dequeued before the
\* poison pill exactly once and in queue order to the file of its kind,
\* calls task_done once per dequeued item, closes both files and returns
\* on the pill and not before, and once the pill has been put it
\* eventually returns.
C29_WriterDrainsAndStops ==
  /\ []C29_WriterSafety
  /\ (\E k \in 1..Len(queue.put) : queue.put[k].pill) ~> (writer.pc = "returned")

\* C29 witness: the writer has returned on the pill after writing a line
\* to each of the two files.
C29_Witness ==
  /\ phase = "writer"
  /\ writer.pc = "returned"
  /\ writer.execution_fd.lines # <<>>
  /\ writer.runtime_fd.lines # <<>>
  /\ writer.task_done = 3
  /\ queue.items # <<>>

====
